---- MODULE Spec2Model ----
(***************************************************************************)
(* The Flux configuration provider of the k8s-configuration Azure CLI      *)
(* extension (FluxConfigurationProvider.py): the provider facade, the      *)
(* prerequisite validators it runs before a create, the kustomization      *)
(* operations and the source-kind generators.                              *)
(*                                                                         *)
(* Every CLI invocation constructs a provider and runs one handler to its  *)
(* end, so one action models one handler.  The cluster (the stored flux    *)
(* configuration, the legacy source-control configurations, the installed  *)
(* extensions) is the state that survives between handlers; the remaining  *)
(* variables record what the last handler was given, read, called and      *)
(* answered.                                                               *)
(***************************************************************************)
EXTENDS Integers, Sequences, FiniteSets, TLC

VARIABLES
    remote,          \* the flux configuration stored on the cluster, or Null
    sccs,            \* number of legacy source-control configurations on the cluster
    extensions,      \* the cluster's extensions, in the order list() yields them
    op,              \* name of the handler that ran last
    args,            \* what that handler was called with (and what its collaborators answered)
    config,          \* the handler's local config / current_config: what show() returned
    flux_extension,  \* the handler's local flux_extension
    request,         \* the body of the last mutating flux-configuration request, or Null
    log,             \* the calls, prompts and notices of the handler, in order
    outcome,         \* "returned", or the class of the exception the handler raised
    error,           \* what the raised exception names: parameters, or its message
    callers          \* the commands running at the same time, each with its own locals

vars == <<remote, sccs, extensions, op, args, config, flux_extension, request, log, outcome,
          error, callers>>

----------------------------------------------------------------------------
(* Python values.  Scalars are strings, None among them; an absent object  *)
(* is Null; an optional number is a sequence of length 0 or 1.             *)

None == "None"
Null == [none |-> TRUE]
NoSeconds == <<>>

\* Python truthiness of a scalar: None, the empty string and False are falsy.
Truthy(v) == v \notin {None, "", "False"}

\* The exception classes the provider meets, with their base classes
\* (azure.cli.core.azclierror and azure.core.exceptions, imported at lines 10-15).
Bases(cls) ==
    CASE cls = "ResourceNotFoundError" -> {"ResourceNotFoundError", "UserFault", "AzCLIError", "CLIError"}
      [] cls = "ValidationError" -> {"ValidationError", "UserFault", "AzCLIError", "CLIError"}
      [] cls = "DeploymentError" -> {"DeploymentError", "ClientError", "AzCLIError", "CLIError"}
      [] cls = "RequiredArgumentMissingError" -> {"RequiredArgumentMissingError", "UserFault", "AzCLIError", "CLIError"}
      [] cls = "UnrecognizedArgumentError" -> {"UnrecognizedArgumentError", "UserFault", "AzCLIError", "CLIError"}
      [] cls = "MutuallyExclusiveArgumentError" -> {"MutuallyExclusiveArgumentError", "UserFault", "AzCLIError", "CLIError"}
      [] cls = "InvalidArgumentValueError" -> {"InvalidArgumentValueError", "UserFault", "AzCLIError", "CLIError"}
      [] cls = "HttpResponseError" -> {"HttpResponseError", "AzureError"}
      [] OTHER -> {cls}

\* except <cls>: catches an exception of class exc
IsInstance(exc, cls) == cls \in Bases(exc)

----------------------------------------------------------------------------
(* Bounds and input alphabets *)

MaxLegacy == 1      \* legacy source-control configurations on the cluster
MaxExt == 2         \* extensions on the cluster before the provider adds its own

MaxNames == 2       \* kustomization names in use

MaxCallers == 2     \* commands running at the same time

Callers == 1..MaxCallers

\* The kustomization names the commands are given.
KsName(i) == "ks" \o ToString(i)
Names == {KsName(i) : i \in 1..MaxNames}

\* consts.py
FLUX_EXTENSION_TYPE == "microsoft.flux"
CREATING == "Creating"
SUCCEEDED == "Succeeded"
MANAGED_RP_NAMESPACE == "Microsoft.ContainerService"
DEFAULT_KUSTOMIZATION_NAME == "default"
GIT == "git"
GIT_REPOSITORY == "GitRepository"
BUCKET == "Bucket"

----------------------------------------------------------------------------
(* The remote flux-configuration client and show() *)

NOT_FOUND_STATUS_MESSAGE == "Operation returned an invalid status code 'Not Found'"
CLUSTER_NOT_FOUND_MESSAGE == "(ResourceNotFound) The Resource was not found"
GONE_MESSAGE == "(NotFound) Not Found"
SERVER_ERROR_MESSAGE == "(InternalServerError) Internal server error"

\* What the transport can do to a get besides answering it.
GetFaults == {"ok", "cluster_missing", "not_found_other", "server_error"}

\* client.get: the stored configuration, or an HttpResponseError with a status
\* and a message.
client_get(stored, fault) ==
    IF fault = "server_error"
    THEN [status |-> 500, message |-> SERVER_ERROR_MESSAGE, body |-> Null]
    ELSE IF fault = "cluster_missing"
    THEN [status |-> 404, message |-> CLUSTER_NOT_FOUND_MESSAGE, body |-> Null]
    ELSE IF fault = "not_found_other"
    THEN [status |-> 404, message |-> GONE_MESSAGE, body |-> Null]
    ELSE IF stored = Null
    THEN [status |-> 404, message |-> NOT_FOUND_STATUS_MESSAGE, body |-> Null]
    ELSE [status |-> 200, message |-> None, body |-> stored]

\* message.__contains__(sub) over the messages above
Contains(message, sub) ==
    \/ message = sub
    \/ sub = "(ResourceNotFound)" /\ message = CLUSTER_NOT_FOUND_MESSAGE

FLUX_CONFIGURATION_NOT_FOUND_MESSAGE == "(FluxConfigurationNotFound) The Resource could not be found!"

\* show letting every failure of client.get through as it came
show_reraising(resp) ==
    IF resp.status = 200
    THEN [raised |-> None, message |-> None, value |-> resp.body]
    ELSE [raised |-> "HttpResponseError", message |-> resp.message, value |-> Null]

\* FluxConfigurationProvider.show, on the answer of client.get
show(resp) ==
    IF resp.status = 200
    THEN [raised |-> None, message |-> None, value |-> resp.body]
    ELSE IF resp.status = 404
    THEN [raised |-> "ResourceNotFoundError",
          message |-> IF Contains(resp.message, "(ResourceNotFound)")
                      THEN resp.message
                      ELSE IF Contains(resp.message, NOT_FOUND_STATUS_MESSAGE)
                      THEN FLUX_CONFIGURATION_NOT_FOUND_MESSAGE
                      ELSE resp.message,
          value |-> Null]
    ELSE [raised |-> "HttpResponseError", message |-> resp.message, value |-> Null]

----------------------------------------------------------------------------
(* Confirmation prompts *)

\* user_confirmation_factory(cmd, yes, message): with yes nothing is asked;
\* otherwise the user is prompted and a rejection cancels the command.
user_confirmation_factory(yes, answer, prompt) ==
    IF yes
    THEN [raised |-> None, log |-> <<>>]
    ELSE [raised |-> IF answer THEN None ELSE "CLIError", log |-> <<prompt>>]

----------------------------------------------------------------------------
(* Durations and dependency lists (utils.py, validators.py) *)

DurationArgs == {None, "10m", "1h", "bogus"}

valid_duration(text) == text \in {"10m", "1h", "30s"}

\* validate_duration(flag, text): None passes, a malformed duration is an
\* InvalidArgumentValueError naming the flag.
validate_duration(flag, text) ==
    IF text = None \/ valid_duration(text)
    THEN [raised |-> None, flag |-> None]
    ELSE [raised |-> "InvalidArgumentValueError", flag |-> flag]

\* parse_duration(text): seconds, None for None
parse_duration(text) ==
    CASE text = "10m" -> <<600>>
      [] text = "1h" -> <<3600>>
      [] text = "30s" -> <<30>>
      [] OTHER -> NoSeconds

\* parse_dependencies(text): the names of a comma-separated list
parse_dependencies(text) ==
    CASE text = "ks1" -> <<"ks1">>
      [] text = "ks2" -> <<"ks2">>
      [] text = "ks1,ks2" -> <<"ks1", "ks2">>
      [] text = "ks9" -> <<"ks9">>
      [] OTHER -> <<>>

----------------------------------------------------------------------------
(* Kustomizations *)

\* KustomizationDefinition(path=..., depends_on=..., ...); depends_on None is <<>>
KustomizationDefinition(path, depends_on, timeout, sync_interval, retry_interval, prune, force) ==
    [path |-> path,
     depends_on |-> depends_on,
     timeout_in_seconds |-> timeout,
     sync_interval_in_seconds |-> sync_interval,
     retry_interval_in_seconds |-> retry_interval,
     prune |-> prune,
     force |-> force]

EmptyKustomizationDefinition ==
    KustomizationDefinition(None, <<>>, NoSeconds, NoSeconds, NoSeconds, None, None)

\* FluxConfigurationPatch(...): every field not given is None
FluxConfigurationPatch(suspend, git_repository, bucket, kustomizations, protected_settings) ==
    [suspend |-> suspend,
     git_repository |-> git_repository,
     bucket |-> bucket,
     kustomizations |-> kustomizations,
     configuration_protected_settings |-> protected_settings]

\* The command-line arguments of kustomization create / update.
KwArgs(path, dependencies, timeout, sync_interval, retry_interval, prune, force) ==
    [path |-> path, dependencies |-> dependencies, timeout |-> timeout,
     sync_interval |-> sync_interval, retry_interval |-> retry_interval,
     prune |-> prune, force |-> force]

KustomizationInputs ==
    {KwArgs(None, None, None, None, None, None, None),
     KwArgs("./apps", None, None, None, None, "True", None),
     KwArgs("./apps", "ks1,ks2", "10m", "1h", "10m", "False", "True"),
     KwArgs("./apps", None, "bogus", None, None, "True", None),
     KwArgs("./apps", None, None, "bogus", None, None, None),
     KwArgs("./apps", None, None, None, "bogus", None, None)}

\* The kustomization a create or update of kwargs sends (lines 206-226, 253-273).
kustomization_of(kwargs) ==
    KustomizationDefinition(
        kwargs.path,
        IF Truthy(kwargs.dependencies) THEN parse_dependencies(kwargs.dependencies) ELSE <<>>,
        parse_duration(kwargs.timeout),
        parse_duration(kwargs.sync_interval),
        parse_duration(kwargs.retry_interval),
        kwargs.prune,
        kwargs.force)

\* The three pre-validations, in order: the first failure is raised.
validate_durations(kwargs) ==
    LET t == validate_duration("--timeout", kwargs.timeout)
        s == validate_duration("--sync-interval", kwargs.sync_interval)
        r == validate_duration("--retry-interval", kwargs.retry_interval)
    IN  IF t.raised # None THEN t ELSE IF s.raised # None THEN s ELSE r

\* has_prune_enabled(config): some kustomization of the configuration prunes
has_prune_enabled(cfg) ==
    \E k \in DOMAIN cfg.kustomizations : Truthy(cfg.kustomizations[k].prune)

\* The remote's patch semantics: a supplied field replaces the stored one; in
\* the kustomization map a key with a definition replaces that key and a key
\* with Null removes it.
ApplyPatch(stored, patch) ==
    LET pk == patch.kustomizations
        merged == IF pk = Null THEN stored.kustomizations
                  ELSE [k \in {n \in (DOMAIN stored.kustomizations) \cup (DOMAIN pk) :
                                   ~(n \in DOMAIN pk /\ pk[n] = Null)} |->
                            IF k \in DOMAIN pk THEN pk[k] ELSE stored.kustomizations[k]]
    IN  [stored EXCEPT
            !.kustomizations = merged,
            !.suspend = IF patch.suspend = None THEN @ ELSE patch.suspend,
            !.git_repository = IF patch.git_repository = Null THEN @ ELSE patch.git_repository,
            !.bucket = IF patch.bucket = Null THEN @ ELSE patch.bucket]

\* What a handler leaves behind.
Result(raised, calls, stored, current_config, body) ==
    [raised |-> raised, log |-> calls, remote |-> stored, config |-> current_config,
     request |-> body]

\* kustomization_name in current_config.kustomizations, never true
has_kustomization_never(current_config, kustomization_name) == FALSE

\* kustomization_name in current_config.kustomizations
has_kustomization(current_config, kustomization_name) ==
    kustomization_name \in DOMAIN current_config.kustomizations
\* a create whose patch also resumes the configuration
create_kustomization_resuming(stored, kustomization_name, kwargs, fault) ==
    LET v == validate_durations(kwargs)
        s == show(client_get(stored, fault))
        patch == FluxConfigurationPatch("False", Null, Null,
                     [k \in {kustomization_name} |-> kustomization_of(kwargs)], Null)
    IN  IF v.raised # None THEN Result(v.raised, <<>>, stored, Null, Null)
        ELSE IF s.raised # None THEN Result(s.raised, <<"client.get">>, stored, Null, Null)
        ELSE IF has_kustomization(s.value, kustomization_name)
        THEN Result("ValidationError", <<"client.get">>, stored, s.value, Null)
        ELSE Result(None, <<"client.get", "client.begin_update">>,
                    ApplyPatch(stored, patch), s.value, patch)


\* FluxConfigurationProvider.create_kustomization
create_kustomization(stored, kustomization_name, kwargs, fault) ==
    LET v == validate_durations(kwargs)
        s == show(client_get(stored, fault))
        patch == FluxConfigurationPatch(None, Null, Null,
                     [k \in {kustomization_name} |-> kustomization_of(kwargs)], Null)
    IN  IF v.raised # None THEN Result(v.raised, <<>>, stored, Null, Null)
        ELSE IF s.raised # None THEN Result(s.raised, <<"client.get">>, stored, Null, Null)
        ELSE IF has_kustomization(s.value, kustomization_name)
        THEN Result("ValidationError", <<"client.get">>, stored, s.value, Null)
        ELSE Result(None, <<"client.get", "client.begin_update">>,
                    ApplyPatch(stored, patch), s.value, patch)

\* create_kustomization up to the configuration it reads (lines 195-199): the
\* durations are validated and show() asks the cluster.
create_kustomization_fetch(stored, kwargs, fault) ==
    LET v == validate_durations(kwargs)
        s == show(client_get(stored, fault))
    IN  IF v.raised # None THEN Result(v.raised, <<>>, stored, Null, Null)
        ELSE IF s.raised # None THEN Result(s.raised, <<"client.get">>, stored, Null, Null)
        ELSE Result(None, <<"client.get">>, stored, s.value, Null)

\* the name is looked for in what the cluster holds when the patch arrives
create_kustomization_patch_cas(stored, current_config, kustomization_name, kwargs) ==
    LET patch == FluxConfigurationPatch(None, Null, Null,
                     [k \in {kustomization_name} |-> kustomization_of(kwargs)], Null)
    IN  IF has_kustomization(stored, kustomization_name)
        THEN Result("ValidationError", <<>>, stored, current_config, Null)
        ELSE Result(None, <<"client.begin_update">>, ApplyPatch(stored, patch),
                    current_config, patch)

\* create_kustomization from the configuration it has read (lines 200-232): the
\* name is looked for in current_config, and the patch is sent to the cluster
\* as it is by then (stored).
create_kustomization_patch(stored, current_config, kustomization_name, kwargs) ==
    LET patch == FluxConfigurationPatch(None, Null, Null,
                     [k \in {kustomization_name} |-> kustomization_of(kwargs)], Null)
    IN  IF has_kustomization(current_config, kustomization_name)
        THEN Result("ValidationError", <<>>, stored, current_config, Null)
        ELSE Result(None, <<"client.begin_update">>, ApplyPatch(stored, patch),
                    current_config, patch)

\* update_kustomization patching the key without looking for it
update_kustomization_unchecked(stored, kustomization_name, kwargs, fault) ==
    LET v == validate_durations(kwargs)
        s == show(client_get(stored, fault))
        patch == FluxConfigurationPatch(None, Null, Null,
                     [k \in {kustomization_name} |-> kustomization_of(kwargs)], Null)
    IN  IF v.raised # None THEN Result(v.raised, <<>>, stored, Null, Null)
        ELSE IF s.raised # None THEN Result(s.raised, <<"client.get">>, stored, Null, Null)
        ELSE Result(None, <<"client.get", "client.begin_update">>,
                    ApplyPatch(stored, patch), s.value, patch)
\* an update that keeps the stored path and prune when none is given
update_kustomization_carrying(stored, kustomization_name, kwargs, fault) ==
    LET v == validate_durations(kwargs)
        s == show(client_get(stored, fault))
        old == s.value.kustomizations[kustomization_name]
        new == kustomization_of(kwargs)
        patch == FluxConfigurationPatch(None, Null, Null,
                     [k \in {kustomization_name} |->
                          [new EXCEPT !.path = IF kwargs.path = None THEN old.path ELSE @,
                                      !.prune = IF kwargs.prune = None THEN old.prune ELSE @]],
                     Null)
    IN  IF v.raised # None THEN Result(v.raised, <<>>, stored, Null, Null)
        ELSE IF s.raised # None THEN Result(s.raised, <<"client.get">>, stored, Null, Null)
        ELSE IF ~has_kustomization(s.value, kustomization_name)
        THEN Result("ValidationError", <<"client.get">>, stored, s.value, Null)
        ELSE Result(None, <<"client.get", "client.begin_update">>,
                    ApplyPatch(stored, patch), s.value, patch)


\* FluxConfigurationProvider.update_kustomization
update_kustomization(stored, kustomization_name, kwargs, fault) ==
    LET v == validate_durations(kwargs)
        s == show(client_get(stored, fault))
        patch == FluxConfigurationPatch(None, Null, Null,
                     [k \in {kustomization_name} |-> kustomization_of(kwargs)], Null)
    IN  IF v.raised # None THEN Result(v.raised, <<>>, stored, Null, Null)
        ELSE IF s.raised # None THEN Result(s.raised, <<"client.get">>, stored, Null, Null)
        ELSE IF ~has_kustomization(s.value, kustomization_name)
        THEN Result("ValidationError", <<"client.get">>, stored, s.value, Null)
        ELSE Result(None, <<"client.get", "client.begin_update">>,
                    ApplyPatch(stored, patch), s.value, patch)

\* current_config.kustomizations[kustomization_name].prune, not looked at
kustomization_prunes_ignored(current_config, kustomization_name) == FALSE

\* current_config.kustomizations[kustomization_name].prune (line 292)
kustomization_prunes(current_config, kustomization_name) ==
    Truthy(current_config.kustomizations[kustomization_name].prune)

\* FluxConfigurationProvider.delete_kustomization; answers are the user's
\* answers to the first and to the second prompt.
delete_kustomization(stored, kustomization_name, yes, answers, fault) ==
    LET c1 == user_confirmation_factory(yes, answers[1], "prompt")
        s == show(client_get(stored, fault))
        c2 == user_confirmation_factory(yes, answers[2], "prompt:prune")
        patch == FluxConfigurationPatch(None, Null, Null,
                     [k \in {kustomization_name} |-> Null], Null)
        fetched == c1.log \o <<"client.get">>
    IN  IF c1.raised # None THEN Result(c1.raised, c1.log, stored, Null, Null)
        ELSE IF s.raised # None THEN Result(s.raised, fetched, stored, Null, Null)
        ELSE IF ~has_kustomization(s.value, kustomization_name)
        THEN Result("ValidationError", fetched, stored, s.value, Null)
        ELSE IF kustomization_prunes(s.value, kustomization_name)
        THEN IF c2.raised # None
             THEN Result(c2.raised, fetched \o <<"warning:prune">> \o c2.log,
                         stored, s.value, Null)
             ELSE Result(None,
                         fetched \o <<"warning:prune">> \o c2.log \o <<"client.begin_update">>,
                         ApplyPatch(stored, patch), s.value, patch)
        ELSE Result(None, fetched \o <<"client.begin_update">>,
                    ApplyPatch(stored, patch), s.value, patch)

\* FluxConfigurationProvider.list_kustomization
list_kustomization(stored, fault) ==
    LET s == show(client_get(stored, fault))
    IN  IF s.raised # None THEN Result(s.raised, <<"client.get">>, stored, Null, Null)
        ELSE Result(None, <<"client.get">>, stored, s.value, Null)

\* FluxConfigurationProvider.show_kustomization
show_kustomization(stored, kustomization_name, fault) ==
    LET s == show(client_get(stored, fault))
    IN  IF s.raised # None THEN Result(s.raised, <<"client.get">>, stored, Null, Null)
        ELSE IF ~has_kustomization(s.value, kustomization_name)
        THEN Result("ValidationError", <<"client.get">>, stored, s.value, Null)
        ELSE Result(None, <<"client.get">>, stored, s.value, Null)

----------------------------------------------------------------------------
(* delete *)

\* except HttpResponseError (line 328): whether delete's handler catches exc
delete_catches(exc) == IsInstance(exc, "HttpResponseError")

\* if has_prune_enabled(config), never asking
delete_asks_prune_never(cfg) == FALSE

\* if has_prune_enabled(config) (line 333)
delete_asks_prune(cfg) == has_prune_enabled(cfg)

\* FluxConfigurationProvider.delete
delete(stored, force, yes, answers, fault) ==
    LET c1 == user_confirmation_factory(yes, answers[1], "prompt")
        s == show(client_get(stored, fault))
        c2 == user_confirmation_factory(yes, answers[2], "prompt:prune")
        fetched == c1.log \o <<"client.get">>
        info == IF force THEN <<>> ELSE <<"info:deleting">>
    IN  IF c1.raised # None THEN Result(c1.raised, c1.log, stored, Null, Null)
        ELSE IF s.raised # None
        THEN IF delete_catches(s.raised)
             THEN Result(None, fetched \o <<"warning:nothing_to_delete">>, stored, Null, Null)
             ELSE Result(s.raised, fetched, stored, Null, Null)
        ELSE IF delete_asks_prune(s.value)
        THEN IF c2.raised # None
             THEN Result(c2.raised, fetched \o <<"warning:prune">> \o c2.log,
                         stored, s.value, Null)
             ELSE Result(None,
                         fetched \o <<"warning:prune">> \o c2.log \o info \o <<"client.begin_delete">>,
                         Null, s.value, Null)
        ELSE Result(None, fetched \o info \o <<"client.begin_delete">>, Null, s.value, Null)

----------------------------------------------------------------------------
(* Source-kind generators *)

\* The keyword arguments of create and update besides kind and kustomization.
ParamNames ==
    {"url", "bucket_name", "timeout", "sync_interval", "access_key", "secret_key",
     "insecure", "local_auth_ref", "known_hosts", "known_hosts_file",
     "ssh_private_key", "ssh_private_key_file", "https_user", "https_key",
     "https_ca_cert", "https_ca_cert_file", "branch", "tag", "semver", "commit",
     "scope", "namespace", "suspend"}

\* consts.py: what each kind requires and what it refuses
GIT_REPO_REQUIRED_PARAMS == {"url"}
GIT_REPO_INVALID_PARAMS == {"bucket_name", "access_key", "secret_key", "insecure"}
BUCKET_REQUIRED_PARAMS == {"url", "bucket_name"}
BUCKET_INVALID_PARAMS ==
    {"branch", "tag", "semver", "commit", "known_hosts", "known_hosts_file",
     "ssh_private_key", "ssh_private_key_file", "https_user", "https_key",
     "https_ca_cert", "https_ca_cert_file"}

HTTPS_URL == "https://example.com/repo.git"
SSH_URL == "ssh://git@example.com/repo.git"
S3_URL == "s3://bucket"

\* The values a parameter is given on the command line besides None.
ParamValues(p) ==
    CASE p = "url" -> {"", HTTPS_URL, SSH_URL, S3_URL}
      [] p \in {"timeout", "sync_interval"} -> {"10m", "bogus"}
      [] p \in {"insecure", "suspend"} -> {"False", "True"}
      [] p = "scope" -> {"cluster", "namespace"}
      [] OTHER -> {"", "v-" \o p}

NoParams == [p \in ParamNames |-> None]

\* validate_required_params with only None counted as missing
validate_required_params_is_none(required_params, kwargs) ==
    LET copied_required == {r \in required_params :
                               ~(r \in DOMAIN kwargs /\ kwargs[r] # None)}
    IN  IF Cardinality(copied_required) > 0
        THEN [raised |-> "RequiredArgumentMissingError", names |-> copied_required]
        ELSE [raised |-> None, names |-> {}]

\* SourceKindGenerator.validate_required_params: every keyword with a truthy
\* value is discarded from a copy of the required set; what is left is missing.
validate_required_params(required_params, kwargs) ==
    LET copied_required == {r \in required_params :
                               ~(r \in DOMAIN kwargs /\ Truthy(kwargs[r]))}
    IN  IF Cardinality(copied_required) > 0
        THEN [raised |-> "RequiredArgumentMissingError", names |-> copied_required]
        ELSE [raised |-> None, names |-> {}]

\* validate_params refusing every keyword that is not None
validate_params_is_none(invalid_params, kwargs) ==
    LET bad_args == {k \in DOMAIN kwargs : kwargs[k] # None /\ k \in invalid_params}
    IN  IF Cardinality(bad_args) > 0
        THEN [raised |-> "UnrecognizedArgumentError", names |-> bad_args]
        ELSE [raised |-> None, names |-> {}]

\* SourceKindGenerator.validate_params: the keywords with a truthy value that
\* the kind refuses
validate_params(invalid_params, kwargs) ==
    LET bad_args == {k \in DOMAIN kwargs : Truthy(kwargs[k]) /\ k \in invalid_params}
    IN  IF Cardinality(bad_args) > 0
        THEN [raised |-> "UnrecognizedArgumentError", names |-> bad_args]
        ELSE [raised |-> None, names |-> {}]

\* get_data_from_key_or_file(value, file_path): the value, or the contents of
\* the file; both at once is an error.
get_data_from_key_or_file(value, file_path) ==
    IF Truthy(value) /\ Truthy(file_path)
    THEN [raised |-> "MutuallyExclusiveArgumentError", data |-> None]
    ELSE IF Truthy(file_path)
    THEN [raised |-> None, data |-> "contents-of-" \o file_path]
    ELSE [raised |-> None, data |-> value]

\* validate_git_url(url): an ssh, http or https remote
validate_git_url(url) ==
    IF url \in {HTTPS_URL, SSH_URL}
    THEN [raised |-> None]
    ELSE [raised |-> "InvalidArgumentValueError"]

\* validate_url_with_params: ssh credentials go with an ssh url, https
\* credentials with an https url
validate_url_with_params(url, ssh_private_key, ssh_private_key_file, known_hosts, known_hosts_file, https_user, https_key) ==
    LET ssh_args == Truthy(ssh_private_key) \/ Truthy(ssh_private_key_file)
                    \/ Truthy(known_hosts) \/ Truthy(known_hosts_file)
        https_args == Truthy(https_user) \/ Truthy(https_key)
    IN  IF (url = HTTPS_URL /\ ssh_args) \/ (url = SSH_URL /\ https_args)
        THEN [raised |-> "ValidationError"]
        ELSE [raised |-> None]

\* validate_repository_ref(repository_ref): at most one of the four selectors
validate_repository_ref(repository_ref) ==
    IF repository_ref = Null THEN [raised |-> None]
    ELSE IF Cardinality({f \in {"branch", "tag", "semver", "commit"} :
                             Truthy(repository_ref[f])}) > 1
    THEN [raised |-> "MutuallyExclusiveArgumentError"]
    ELSE [raised |-> None]

Raised(cls, names) == [raised |-> cls, names |-> names]

\* GitRepositoryGenerator.__init__
GitRepositoryGenerator(kwargs) ==
    LET required == validate_required_params(GIT_REPO_REQUIRED_PARAMS, kwargs)
        invalid == validate_params(GIT_REPO_INVALID_PARAMS, kwargs)
        timeout == validate_duration("--timeout", kwargs["timeout"])
        sync_interval == validate_duration("--sync-interval", kwargs["sync_interval"])
        knownhost == get_data_from_key_or_file(kwargs["known_hosts"], kwargs["known_hosts_file"])
        https_ca == get_data_from_key_or_file(kwargs["https_ca_cert"], kwargs["https_ca_cert_file"])
        repository_ref ==
            IF \E f \in {"branch", "tag", "semver", "commit"} : Truthy(kwargs[f])
            THEN [branch |-> kwargs["branch"], tag |-> kwargs["tag"],
                  semver |-> kwargs["semver"], commit |-> kwargs["commit"]]
            ELSE Null
        failed == IF required.raised # None THEN required
                  ELSE IF invalid.raised # None THEN invalid
                  ELSE IF timeout.raised # None THEN Raised(timeout.raised, {"timeout"})
                  ELSE IF sync_interval.raised # None
                  THEN Raised(sync_interval.raised, {"sync_interval"})
                  ELSE IF knownhost.raised # None
                  THEN Raised(knownhost.raised, {"known_hosts", "known_hosts_file"})
                  ELSE IF https_ca.raised # None
                  THEN Raised(https_ca.raised, {"https_ca_cert", "https_ca_cert_file"})
                  ELSE Raised(None, {})
    IN  [raised |-> failed.raised, names |-> failed.names, kind |-> GIT, kwargs |-> kwargs,
         knownhost_data |-> knownhost.data, https_ca_data |-> https_ca.data,
         repository_ref |-> repository_ref]

\* BucketGenerator.__init__
BucketGenerator(kwargs) ==
    LET required == validate_required_params(BUCKET_REQUIRED_PARAMS, kwargs)
        invalid == validate_params(BUCKET_INVALID_PARAMS, kwargs)
        timeout == validate_duration("--timeout", kwargs["timeout"])
        sync_interval == validate_duration("--sync-interval", kwargs["sync_interval"])
        failed == IF required.raised # None THEN required
                  ELSE IF invalid.raised # None THEN invalid
                  ELSE IF timeout.raised # None THEN Raised(timeout.raised, {"timeout"})
                  ELSE IF sync_interval.raised # None
                  THEN Raised(sync_interval.raised, {"sync_interval"})
                  ELSE Raised(None, {})
    IN  [raised |-> failed.raised, names |-> failed.names, kind |-> BUCKET, kwargs |-> kwargs,
         knownhost_data |-> None, https_ca_data |-> None, repository_ref |-> Null]

\* The keyword kind is not among the keyword arguments of the call.
NotGiven == "NotGiven"

\* source_kind_generator_factory(kind=consts.GIT, **kwargs): the default is
\* taken when the keyword is not passed, not when it is passed as None.
source_kind_generator_factory(kind, kwargs) ==
    LET given == IF kind = NotGiven THEN GIT ELSE kind
    IN  IF given = GIT \/ given = GIT_REPOSITORY
        THEN GitRepositoryGenerator(kwargs)
        ELSE BucketGenerator(kwargs)

\* get_rp_source_kind answering GitRepository for every generator
get_rp_source_kind_git(factory) == GIT_REPOSITORY

\* SourceKindGenerator.get_rp_source_kind
get_rp_source_kind(factory) ==
    IF factory.kind = GIT THEN GIT_REPOSITORY ELSE BUCKET

GitRepositoryDefinition(factory) ==
    [url |-> factory.kwargs["url"],
     timeout_in_seconds |-> parse_duration(factory.kwargs["timeout"]),
     sync_interval_in_seconds |-> parse_duration(factory.kwargs["sync_interval"]),
     repository_ref |-> factory.repository_ref,
     ssh_known_hosts |-> factory.knownhost_data,
     https_user |-> factory.kwargs["https_user"],
     local_auth_ref |-> factory.kwargs["local_auth_ref"],
     https_ca_file |-> factory.https_ca_data]

BucketDefinition(factory) ==
    [url |-> factory.kwargs["url"],
     bucket_name |-> factory.kwargs["bucket_name"],
     timeout_in_seconds |-> parse_duration(factory.kwargs["timeout"]),
     sync_interval_in_seconds |-> parse_duration(factory.kwargs["sync_interval"]),
     access_key |-> factory.kwargs["access_key"],
     local_auth_ref |-> factory.kwargs["local_auth_ref"],
     insecure |-> factory.kwargs["insecure"]]

\* GitRepositoryGenerator.generate / BucketGenerator.generate: the pair
\* (git_repository, bucket) of the create request
generate(factory) ==
    IF factory.kind = GIT
    THEN LET kw == factory.kwargs
             url == validate_git_url(kw["url"])
             creds == validate_url_with_params(kw["url"], kw["ssh_private_key"],
                          kw["ssh_private_key_file"], kw["known_hosts"],
                          kw["known_hosts_file"], kw["https_user"], kw["https_key"])
             ref == validate_repository_ref(factory.repository_ref)
         IN  IF url.raised # None
             THEN [raised |-> url.raised, git_repository |-> Null, bucket |-> Null]
             ELSE IF creds.raised # None
             THEN [raised |-> creds.raised, git_repository |-> Null, bucket |-> Null]
             ELSE IF ref.raised # None
             THEN [raised |-> ref.raised, git_repository |-> Null, bucket |-> Null]
             ELSE [raised |-> None, git_repository |-> GitRepositoryDefinition(factory),
                   bucket |-> Null]
    ELSE [raised |-> None, git_repository |-> Null, bucket |-> BucketDefinition(factory)]

\* generate_patch leaving the repository reference out of the git patch
generate_patch_without_ref(factory, supplied) ==
    IF ~supplied
    THEN [raised |-> None, git_repository |-> Null, bucket |-> Null]
    ELSE IF factory.kind = GIT
    THEN [raised |-> None,
          git_repository |-> [GitRepositoryDefinition(factory) EXCEPT !.repository_ref = Null],
          bucket |-> Null]
    ELSE [raised |-> None, git_repository |-> Null, bucket |-> BucketDefinition(factory)]

\* GitRepositoryGenerator.generate_patch / BucketGenerator.generate_patch: the
\* pair of the patch request; values are all the keyword values the generator
\* was built with, supplied says whether any of them is truthy.
generate_patch(factory, supplied) ==
    IF ~supplied
    THEN [raised |-> None, git_repository |-> Null, bucket |-> Null]
    ELSE IF factory.kind = GIT
    THEN [raised |-> None, git_repository |-> GitRepositoryDefinition(factory), bucket |-> Null]
    ELSE [raised |-> None, git_repository |-> Null, bucket |-> BucketDefinition(factory)]

\* any(self.kwargs.values()) for the keywords and the kustomization list
any_supplied(kwargs, kustomization) ==
    \/ \E k \in DOMAIN kwargs : Truthy(kwargs[k])
    \/ Len(kustomization) > 0

----------------------------------------------------------------------------
(* Protected settings *)

SSH_PRIVATE_KEY_KEY == "sshPrivateKey"
HTTPS_KEY_KEY == "httpsKey"
BUCKET_SECRET_KEY_KEY == "bucketSecretKey"

to_base64(text) == "base64(" \o text \o ")"

\* validate_private_key(data): a well-formed private key
validate_private_key(data) ==
    IF data \in {"v-ssh_private_key", "contents-of-v-ssh_private_key_file"}
    THEN [raised |-> None]
    ELSE [raised |-> "InvalidArgumentValueError"]

\* get_protected_settings passing the https key and the secret key on as given
get_protected_settings_plain(ssh_private_key, ssh_private_key_file, https_key, secret_key) ==
    LET ssh_private_key_data == get_data_from_key_or_file(ssh_private_key, ssh_private_key_file)
        keys == (IF Truthy(ssh_private_key_data.data) THEN {SSH_PRIVATE_KEY_KEY} ELSE {})
                \cup (IF Truthy(https_key) THEN {HTTPS_KEY_KEY} ELSE {})
                \cup (IF Truthy(secret_key) THEN {BUCKET_SECRET_KEY_KEY} ELSE {})
        protected_settings ==
            [k \in keys |-> IF k = SSH_PRIVATE_KEY_KEY THEN ssh_private_key_data.data
                            ELSE IF k = HTTPS_KEY_KEY THEN https_key
                            ELSE secret_key]
    IN  IF ssh_private_key_data.raised # None
        THEN [raised |-> ssh_private_key_data.raised, settings |-> Null]
        ELSE [raised |-> None,
              settings |-> IF Cardinality(keys) > 0 THEN protected_settings ELSE Null]

\* get_protected_settings(ssh_private_key, ssh_private_key_file, https_key, secret_key)
get_protected_settings(ssh_private_key, ssh_private_key_file, https_key, secret_key) ==
    LET ssh_private_key_data == get_data_from_key_or_file(ssh_private_key, ssh_private_key_file)
        keys == (IF Truthy(ssh_private_key_data.data) THEN {SSH_PRIVATE_KEY_KEY} ELSE {})
                \cup (IF Truthy(https_key) THEN {HTTPS_KEY_KEY} ELSE {})
                \cup (IF Truthy(secret_key) THEN {BUCKET_SECRET_KEY_KEY} ELSE {})
        protected_settings ==
            [k \in keys |-> IF k = SSH_PRIVATE_KEY_KEY THEN ssh_private_key_data.data
                            ELSE IF k = HTTPS_KEY_KEY THEN to_base64(https_key)
                            ELSE to_base64(secret_key)]
    IN  IF ssh_private_key_data.raised # None
        THEN [raised |-> ssh_private_key_data.raised, settings |-> Null]
        ELSE [raised |-> None,
              settings |-> IF Cardinality(keys) > 0 THEN protected_settings ELSE Null]

\* the protected settings with the private key taken as it is
protected_settings_unvalidated(kwargs) ==
    get_protected_settings(kwargs["ssh_private_key"], kwargs["ssh_private_key_file"],
                           kwargs["https_key"], kwargs["secret_key"])

\* lines 129-133, 169-173: the protected settings, the private key validated
protected_settings_of(kwargs) ==
    LET got == get_protected_settings(kwargs["ssh_private_key"], kwargs["ssh_private_key_file"],
                                      kwargs["https_key"], kwargs["secret_key"])
    IN  IF got.raised # None THEN got
        ELSE IF got.settings # Null /\ SSH_PRIVATE_KEY_KEY \in DOMAIN got.settings
        THEN [raised |-> validate_private_key(got.settings[SSH_PRIVATE_KEY_KEY]).raised,
              settings |-> got.settings]
        ELSE got

----------------------------------------------------------------------------
(* Prerequisites of a create *)

FLUX_TYPE_MIXED_CASE == "Microsoft.Flux"
OTHER_EXTENSION_TYPE == "microsoft.azuredefender.kubernetes"

ExtensionTypes == {FLUX_EXTENSION_TYPE, FLUX_TYPE_MIXED_CASE, OTHER_EXTENSION_TYPE}
ProvisioningStates == {SUCCEEDED, CREATING, "Failed"}
ClusterTypes == {"connectedClusters", "managedClusters"}

Extension(extension_type, provisioning_state, identity) ==
    [extension_type |-> extension_type, provisioning_state |-> provisioning_state,
     identity |-> identity]

\* str.lower() over the extension types
lower(text) == IF text = FLUX_TYPE_MIXED_CASE THEN "microsoft.flux" ELSE text

\* get_cluster_rp(cluster_type)
get_cluster_rp(cluster_type) ==
    IF cluster_type = "managedClusters" THEN "Microsoft.ContainerService"
    ELSE IF cluster_type = "appliances" THEN "Microsoft.ResourceConnector"
    ELSE "Microsoft.Kubernetes"

\* _validate_source_control_config_not_installed, tolerating one legacy configuration
validate_scc_tolerating_one(n_configs) ==
    IF n_configs > 1
    THEN [raised |-> "DeploymentError", log |-> <<"source_control_configuration.list">>]
    ELSE [raised |-> None, log |-> <<"source_control_configuration.list">>]

\* FluxConfigurationProvider._validate_source_control_config_not_installed:
\* the first listed legacy configuration raises
_validate_source_control_config_not_installed(n_configs) ==
    IF n_configs > 0
    THEN [raised |-> "DeploymentError", log |-> <<"source_control_configuration.list">>]
    ELSE [raised |-> None, log |-> <<"source_control_configuration.list">>]

\* lines 361-365: the first listed extension of the Flux type
find_flux_extension(exts) ==
    LET hits == {i \in 1..Len(exts) : lower(exts[i].extension_type) = FLUX_EXTENSION_TYPE}
    IN  IF hits = {} THEN Null
        ELSE exts[CHOOSE i \in hits : \A j \in hits : i <= j]

\* lines 389-398 refusing only an extension that is still being created
check_provisioning_state_creating_only(extension) ==
    IF extension.provisioning_state = CREATING THEN "DeploymentError" ELSE None

\* lines 389-398: the found extension must have been provisioned
check_provisioning_state(extension) ==
    IF extension.provisioning_state = CREATING THEN "DeploymentError"
    ELSE IF extension.provisioning_state # SUCCEEDED THEN "DeploymentError"
    ELSE None

\* FluxConfigurationProvider.__add_identity; parent_get is what
\* resources.get_by_id answers
add_identity(extension_instance, cluster_rp, parent_get) ==
    IF cluster_rp = MANAGED_RP_NAMESPACE
    THEN [raised |-> None, log |-> <<>>, extension |-> extension_instance]
    ELSE IF parent_get # "ok"
    THEN [raised |-> "HttpResponseError", log |-> <<"resources.get_by_id">>,
          extension |-> extension_instance]
    ELSE [raised |-> None, log |-> <<"resources.get_by_id">>,
          extension |-> [extension_instance EXCEPT !.identity = "SystemAssigned"]]

\* lines 383-388 announcing success whether or not the operation was awaited
begin_create_extension_always_notice(exts, extension, no_wait, lro) ==
    IF no_wait
    THEN [raised |-> None,
          log |-> <<"extension_client.begin_create", "warning:extension_installed">>,
          extensions |-> Append(exts, [extension EXCEPT !.provisioning_state = CREATING])]
    ELSE IF lro # SUCCEEDED
    THEN [raised |-> "HttpResponseError",
          log |-> <<"extension_client.begin_create">>,
          extensions |-> Append(exts, [extension EXCEPT !.provisioning_state = lro])]
    ELSE [raised |-> None,
          log |-> <<"extension_client.begin_create", "lro.completed",
                    "warning:extension_installed">>,
          extensions |-> Append(exts, [extension EXCEPT !.provisioning_state = SUCCEEDED])]

\* lines 383-388: the install call and .result(); with no_wait the poller does
\* not poll and the extension is left being created, otherwise the operation
\* has ended, as lro, when .result() returns or raises
begin_create_extension(exts, extension, no_wait, lro) ==
    IF no_wait
    THEN [raised |-> None,
          log |-> <<"extension_client.begin_create">>,
          extensions |-> Append(exts, [extension EXCEPT !.provisioning_state = CREATING])]
    ELSE IF lro # SUCCEEDED
    THEN [raised |-> "HttpResponseError",
          log |-> <<"extension_client.begin_create">>,
          extensions |-> Append(exts, [extension EXCEPT !.provisioning_state = lro])]
    ELSE [raised |-> None,
          log |-> <<"extension_client.begin_create", "lro.completed",
                    "warning:extension_installed">>,
          extensions |-> Append(exts, [extension EXCEPT !.provisioning_state = SUCCEEDED])]

\* FluxConfigurationProvider._validate_extension_install
_validate_extension_install(exts, no_wait, cluster_type, dogfood, parent_get, lro) ==
    LET found == find_flux_extension(exts)
        listed == <<"extension_client.list">>
        extension == Extension("microsoft.flux", None, None)
        identified == IF dogfood
                      THEN [raised |-> None, log |-> <<>>, extension |-> extension]
                      ELSE add_identity(extension, get_cluster_rp(cluster_type), parent_get)
        installed == begin_create_extension(exts, identified.extension, no_wait, lro)
        announced == listed \o <<"warning:extension_not_found">> \o identified.log
    IN  IF found = Null
        THEN IF identified.raised # None
             THEN [raised |-> identified.raised, log |-> announced,
                   extensions |-> exts, flux_extension |-> Null]
             ELSE [raised |-> installed.raised, log |-> announced \o installed.log,
                   extensions |-> installed.extensions, flux_extension |-> Null]
        ELSE [raised |-> check_provisioning_state(found), log |-> listed,
              extensions |-> exts, flux_extension |-> found]

----------------------------------------------------------------------------
(* create, update, list *)

FluxConfiguration(scope, namespace, source_kind, git_repository, bucket, suspend, kustomizations, protected_settings) ==
    [scope |-> scope, namespace |-> namespace, source_kind |-> source_kind,
     git_repository |-> git_repository, bucket |-> bucket, suspend |-> suspend,
     kustomizations |-> kustomizations,
     configuration_protected_settings |-> protected_settings]

\* What the cluster keeps of a create request: the protected settings are
\* write-only.
Stored(body) ==
    [scope |-> body.scope, namespace |-> body.namespace, source_kind |-> body.source_kind,
     git_repository |-> body.git_repository, bucket |-> body.bucket,
     suspend |-> body.suspend, kustomizations |-> body.kustomizations]

\* the supplied kustomizations by name, and the default one besides
kustomization_map_with_default(kustomization) ==
    [n \in {kustomization[i].name : i \in 1..Len(kustomization)}
            \cup {DEFAULT_KUSTOMIZATION_NAME} |->
        IF \E i \in 1..Len(kustomization) : kustomization[i].name = n
        THEN (CHOOSE k \in {kustomization[i] : i \in 1..Len(kustomization)} :
                  k.name = n).definition
        ELSE EmptyKustomizationDefinition]

\* {k.name: k.to_KustomizationDefinition() for k in kustomizations}: a later
\* entry of a name replaces an earlier one
kustomization_map(kustomization) ==
    [n \in {kustomization[i].name : i \in 1..Len(kustomization)} |->
        LET last == CHOOSE i \in 1..Len(kustomization) :
                        /\ kustomization[i].name = n
                        /\ \A j \in 1..Len(kustomization) :
                               kustomization[j].name = n => j <= i
        IN  kustomization[last].definition]

\* What a create leaves behind: a handler's result and the extensions.
CreateResult(raised, names, calls, stored, exts, found, body) ==
    [raised |-> raised, names |-> names, log |-> calls, remote |-> stored,
     extensions |-> exts, flux_extension |-> found, request |-> body]

\* FluxConfigurationProvider.create
create(stored, n_configs, exts, kind, kwargs, kustomization, no_wait, cluster_type, dogfood, parent_get, lro) ==
    LET factory == source_kind_generator_factory(kind, kwargs)
        generated == generate(factory)
        warned == IF Len(kustomization) > 0 THEN <<>> ELSE <<"warning:no_kustomizations">>
        kustomizations ==
            IF Len(kustomization) > 0 THEN kustomization_map(kustomization)
            ELSE [n \in {DEFAULT_KUSTOMIZATION_NAME} |-> EmptyKustomizationDefinition]
        protected == protected_settings_of(kwargs)
        flux_configuration ==
            FluxConfiguration(kwargs["scope"], kwargs["namespace"],
                              get_rp_source_kind(factory), generated.git_repository,
                              generated.bucket, kwargs["suspend"], kustomizations,
                              protected.settings)
        legacy == _validate_source_control_config_not_installed(n_configs)
        ext == _validate_extension_install(exts, no_wait, cluster_type, dogfood,
                                           parent_get, lro)
    IN  IF factory.raised # None
        THEN CreateResult(factory.raised, factory.names, <<>>, stored, exts, Null, Null)
        ELSE IF generated.raised # None
        THEN CreateResult(generated.raised, {}, <<>>, stored, exts, Null, Null)
        ELSE IF protected.raised # None
        THEN CreateResult(protected.raised, {}, warned, stored, exts, Null, Null)
        ELSE IF legacy.raised # None
        THEN CreateResult(legacy.raised, {}, warned \o legacy.log, stored, exts, Null, Null)
        ELSE IF ext.raised # None
        THEN CreateResult(ext.raised, {}, warned \o legacy.log \o ext.log, stored,
                          ext.extensions, ext.flux_extension, Null)
        ELSE CreateResult(None, {},
                          warned \o legacy.log \o ext.log
                              \o <<"warning:creating", "client.begin_create_or_update">>,
                          Stored(flux_configuration), ext.extensions, ext.flux_extension,
                          flux_configuration)
\* an update that lists the legacy configurations and the extensions first
update_after_prerequisites(stored, kind, kwargs, kustomization, fault) ==
    LET s == show(client_get(stored, fault))
        checked == <<"source_control_configuration.list", "extension_client.list">>
    IN  IF s.raised # None
        THEN Result(s.raised, checked \o <<"client.get">>, stored, Null, Null)
        ELSE Result(None, checked \o <<"client.get", "client.begin_update">>, stored, s.value,
                    FluxConfigurationPatch(kwargs["suspend"], Null, Null, Null, Null))


\* FluxConfigurationProvider.update.  kind is the keyword of the call; the
\* local variable that lines 156-159 set to the stored source kind is not
\* read again: the factory is called with the keywords as they came (160).
update(stored, kind, kwargs, kustomization, fault) ==
    LET s == show(client_get(stored, fault))
        factory == source_kind_generator_factory(kind, kwargs)
        generated == generate_patch(factory, any_supplied(kwargs, kustomization))
        kustomizations == IF Len(kustomization) > 0 THEN kustomization_map(kustomization)
                          ELSE Null
        protected == protected_settings_of(kwargs)
        patch == FluxConfigurationPatch(kwargs["suspend"], generated.git_repository,
                                        generated.bucket, kustomizations, protected.settings)
    IN  IF s.raised # None THEN Result(s.raised, <<"client.get">>, stored, Null, Null)
        ELSE IF factory.raised # None
        THEN Result(factory.raised, <<"client.get">>, stored, s.value, Null)
                 @@ [names |-> factory.names]
        ELSE IF protected.raised # None
        THEN Result(protected.raised, <<"client.get">>, stored, s.value, Null)
        ELSE Result(None, <<"client.get", "client.begin_update">>,
                    ApplyPatch(stored, patch), s.value, patch)

----------------------------------------------------------------------------
(* The commands *)

InLog(event, calls) == \E i \in 1..Len(calls) : calls[i] = event

Count(event, calls) == Cardinality({i \in 1..Len(calls) : calls[i] = event})

\* The position of the first event in calls, 0 when it is not there.
IndexOf(event, calls) ==
    IF InLog(event, calls)
    THEN CHOOSE i \in 1..Len(calls) :
             calls[i] = event /\ \A j \in 1..(i - 1) : calls[j] # event
    ELSE 0

OutcomeOf(res) == IF res.raised = None THEN "returned" ELSE res.raised

\* A collaborator that was not called gave no answer: the answer of a prompt
\* that was not shown and of a get that was not sent is recorded as its default.
AnswersUsed(calls, answers, fault) ==
    /\ ~InLog("prompt", calls) => answers[1]
    /\ ~InLog("prompt:prune", calls) => answers[2]
    /\ ~InLog("client.get", calls) => fault = "ok"

Answers == {<<a, b>> : a \in BOOLEAN, b \in BOOLEAN}

\* The command-line inputs of create and update explored with the commands.
GitParams == [NoParams EXCEPT !["url"] = HTTPS_URL, !["branch"] = "v-branch"]
BucketParams == [NoParams EXCEPT !["url"] = S3_URL, !["bucket_name"] = "v-bucket_name",
                                 !["access_key"] = "v-access_key"]

SshParams == [NoParams EXCEPT !["url"] = SSH_URL]

\* A private key that validate_private_key refuses.
MALFORMED_KEY == "not-a-key"

\* Command lines with a user-input error of each sort: a required parameter
\* missing, a parameter of the other kind, a malformed duration, a malformed
\* url, two repository references, a key with a key file, a malformed key.
InvalidParams ==
    {NoParams,
     [GitParams EXCEPT !["bucket_name"] = "v-bucket_name"],
     [GitParams EXCEPT !["timeout"] = "bogus"],
     [GitParams EXCEPT !["url"] = S3_URL],
     [GitParams EXCEPT !["tag"] = "v-tag"],
     [SshParams EXCEPT !["ssh_private_key"] = "v-ssh_private_key",
                       !["ssh_private_key_file"] = "v-ssh_private_key_file"],
     [SshParams EXCEPT !["ssh_private_key"] = MALFORMED_KEY]}

\* Command lines that carry secrets: an ssh key inline or in a file, an https
\* key, a bucket secret key.
KeyedCreateInputs ==
    {[kind |-> GIT, kwargs |-> [SshParams EXCEPT !["ssh_private_key"] = "v-ssh_private_key"]],
     [kind |-> BUCKET, kwargs |-> [BucketParams EXCEPT !["secret_key"] = "v-secret_key"]]}

KeyedUpdateInputs ==
    {[kind |-> GIT, kwargs |-> [GitParams EXCEPT !["https_user"] = "v-https_user",
                                                 !["https_key"] = "v-https_key"]],
     [kind |-> GIT, kwargs |-> [SshParams EXCEPT
                                    !["ssh_private_key_file"] = "v-ssh_private_key_file"]],
     [kind |-> GIT, kwargs |-> [SshParams EXCEPT !["ssh_private_key"] = MALFORMED_KEY]]}

CreateInputs ==
    {[kind |-> GIT, kwargs |-> GitParams],
     [kind |-> GIT_REPOSITORY, kwargs |-> GitParams],
     [kind |-> NotGiven, kwargs |-> GitParams],
     [kind |-> BUCKET, kwargs |-> BucketParams]}
    \cup {[kind |-> GIT, kwargs |-> kwargs] : kwargs \in InvalidParams}

UpdateInputs ==
    {[kind |-> GIT, kwargs |-> GitParams],
     [kind |-> GIT, kwargs |-> [NoParams EXCEPT !["suspend"] = "True"]],
     [kind |-> None, kwargs |-> GitParams],
     [kind |-> NotGiven, kwargs |-> BucketParams]}

InternalKustomizationDefinition(name, kwargs) ==
    [name |-> name, definition |-> kustomization_of(kwargs)]

KustomizationLists ==
    {<<>>,
     <<InternalKustomizationDefinition(KsName(1), KwArgs("./apps", None, None, None, None, "True", None))>>,
     <<InternalKustomizationDefinition(KsName(1), KwArgs(None, None, None, None, None, None, None)),
       InternalKustomizationDefinition(KsName(2), KwArgs("./apps", None, None, None, None, "True", None))>>}

\* A command that has not started: its locals are unset.
Resting ==
    [pc |-> "start", kustomization_name |-> None, kwargs |-> Null, current_config |-> Null,
     outcome |-> "none"]

NoCallers == [c \in Callers |-> Resting]

\* No command is running: a command is a process of its own, and nothing of
\* it is left when it has ended.
Idle ==
    /\ op = "init"
    /\ args = Null
    /\ config = Null
    /\ flux_extension = Null
    /\ request = Null
    /\ log = <<>>
    /\ outcome = "none"
    /\ error = {}

UpdateLists ==
    {<<>>,
     <<InternalKustomizationDefinition(KsName(1), KwArgs("./apps", None, None, None, None, "True", None))>>}

\* The names or the message of the exception a handler raised.
ErrorOf(res) ==
    IF res.raised # None /\ "names" \in DOMAIN res THEN res.names ELSE {}

Finish(name, given, res) ==
    /\ op' = name
    /\ args' = given
    /\ remote' = res.remote
    /\ config' = res.config
    /\ request' = res.request
    /\ log' = res.log
    /\ outcome' = OutcomeOf(res)
    /\ error' = ErrorOf(res)

Show ==
    /\ UNCHANGED callers
    /\ Idle
    /\ \E fault \in GetFaults :
        LET s == show(client_get(remote, fault))
        IN  /\ Finish("show", [fault |-> fault, stored |-> remote],
                      [raised |-> s.raised, log |-> <<"client.get">>, remote |-> remote,
                       config |-> s.value, request |-> Null, names |-> {s.message}])
            /\ UNCHANGED <<sccs, extensions, flux_extension>>

List ==
    /\ UNCHANGED callers
    /\ Idle
    /\ Finish("list", Null, Result(None, <<"client.list">>, remote, Null, Null))
    /\ UNCHANGED <<sccs, extensions, flux_extension>>

\* The source generator raises, in its constructor or in generate(): create
\* ends before it reads the kustomizations.
source_refused(kind, kwargs) ==
    LET factory == source_kind_generator_factory(kind, kwargs)
    IN  factory.raised # None \/ generate(factory).raised # None

\* The kustomizations are recorded as none given when create ends before it
\* reads them.  The collaborators of the installation (the cluster type's resource provider,
\* the dogfood test, the parent resource, the long-running operation) answer
\* only when create installs the extension; whether it does is decided by what
\* comes before and not by their answers.
CreateWith(inputs) ==
    /\ UNCHANGED callers
    /\ Idle
    /\ \E inp \in inputs :
       \E kustomization \in (IF source_refused(inp.kind, inp.kwargs) THEN {<<>>}
                              ELSE KustomizationLists) :
        LET plain == create(remote, sccs, extensions, inp.kind, inp.kwargs, kustomization,
                            FALSE, "connectedClusters", FALSE, "ok", SUCCEEDED)
            installing == InLog("warning:extension_not_found", plain.log)
        IN  \E no_wait \in IF installing THEN BOOLEAN ELSE {FALSE},
               cluster_type \in IF installing THEN ClusterTypes ELSE {"connectedClusters"},
               dogfood \in IF installing THEN BOOLEAN ELSE {FALSE},
               parent_get \in IF installing THEN {"ok", "error"} ELSE {"ok"},
               lro \in IF installing THEN {SUCCEEDED, "Failed"} ELSE {SUCCEEDED} :
            /\ no_wait => lro = SUCCEEDED
            /\ dogfood => cluster_type = "connectedClusters" /\ parent_get = "ok"
            /\ LET res == create(remote, sccs, extensions, inp.kind, inp.kwargs,
                                 kustomization, no_wait, cluster_type, dogfood, parent_get,
                                 lro)
               IN
                /\ ~InLog("resources.get_by_id", res.log) => parent_get = "ok"
                /\ (~InLog("extension_client.begin_create", res.log) \/ no_wait)
                       => lro = SUCCEEDED
                /\ op' = "create"
                /\ args' = [kind |-> inp.kind, kwargs |-> inp.kwargs,
                            kustomization |-> kustomization, no_wait |-> no_wait,
                            cluster_type |-> cluster_type, dogfood |-> dogfood,
                            parent_get |-> parent_get, lro |-> lro,
                            sccs |-> sccs, extensions |-> extensions,
                            stored |-> remote]
                /\ remote' = res.remote
                /\ extensions' = res.extensions
                /\ flux_extension' = res.flux_extension
                /\ config' = Null
                /\ request' = res.request
                /\ log' = res.log
                /\ outcome' = OutcomeOf(res)
                /\ error' = ErrorOf(res)
                /\ UNCHANGED sccs

Create == CreateWith(CreateInputs \cup KeyedCreateInputs)

\* create on any cluster, the kind given by its own name
CreateOnCluster == CreateWith({inp \in CreateInputs : inp.kind \in {GIT, BUCKET}})

UpdateWith(inputs, lists, faults) ==
    /\ UNCHANGED callers
    /\ Idle
    /\ \E inp \in inputs, kustomization \in lists, fault \in faults :
        LET res == update(remote, inp.kind, inp.kwargs, kustomization, fault)
        IN  /\ Finish("update", [kind |-> inp.kind, kwargs |-> inp.kwargs,
                                 kustomization |-> kustomization, fault |-> fault,
                                 stored |-> remote], res)
            /\ UNCHANGED <<sccs, extensions, flux_extension>>

Update == UpdateWith(UpdateInputs \cup KeyedUpdateInputs, UpdateLists, GetFaults)

\* update on any cluster, whatever it lists
UpdateOnCluster == UpdateWith({[kind |-> GIT, kwargs |-> GitParams]}, {<<>>}, {"ok"})

Delete ==
    /\ UNCHANGED callers
    /\ Idle
    /\ \E force \in BOOLEAN, yes \in BOOLEAN, answers \in Answers, fault \in GetFaults :
        LET res == delete(remote, force, yes, answers, fault)
        IN  /\ AnswersUsed(res.log, answers, fault)
            /\ Finish("delete", [force |-> force, yes |-> yes, answers |-> answers,
                                 fault |-> fault, stored |-> remote], res)
            /\ UNCHANGED <<sccs, extensions, flux_extension>>

CreateKustomization ==
    /\ UNCHANGED callers
    /\ Idle
    /\ \E name \in Names, kwargs \in KustomizationInputs, fault \in GetFaults :
        LET res == create_kustomization(remote, name, kwargs, fault)
        IN  /\ AnswersUsed(res.log, <<TRUE, TRUE>>, fault)
            /\ Finish("create_kustomization",
                      [kustomization_name |-> name, kwargs |-> kwargs, fault |-> fault,
                       stored |-> remote], res)
            /\ UNCHANGED <<sccs, extensions, flux_extension>>

UpdateKustomization ==
    /\ UNCHANGED callers
    /\ Idle
    /\ \E name \in Names, kwargs \in KustomizationInputs, fault \in GetFaults :
        LET res == update_kustomization(remote, name, kwargs, fault)
        IN  /\ AnswersUsed(res.log, <<TRUE, TRUE>>, fault)
            /\ Finish("update_kustomization",
                      [kustomization_name |-> name, kwargs |-> kwargs, fault |-> fault,
                       stored |-> remote], res)
            /\ UNCHANGED <<sccs, extensions, flux_extension>>

DeleteKustomization ==
    /\ UNCHANGED callers
    /\ Idle
    /\ \E name \in Names, yes \in BOOLEAN, answers \in Answers, fault \in GetFaults :
        LET res == delete_kustomization(remote, name, yes, answers, fault)
        IN  /\ AnswersUsed(res.log, answers, fault)
            /\ Finish("delete_kustomization",
                      [kustomization_name |-> name, yes |-> yes, answers |-> answers,
                       fault |-> fault, stored |-> remote], res)
            /\ UNCHANGED <<sccs, extensions, flux_extension>>

ListKustomization ==
    /\ UNCHANGED callers
    /\ Idle
    /\ \E fault \in GetFaults :
        /\ Finish("list_kustomization", [fault |-> fault, stored |-> remote],
                  list_kustomization(remote, fault))
        /\ UNCHANGED <<sccs, extensions, flux_extension>>

ShowKustomization ==
    /\ UNCHANGED callers
    /\ Idle
    /\ \E name \in Names, fault \in GetFaults :
        /\ Finish("show_kustomization",
                  [kustomization_name |-> name, fault |-> fault, stored |-> remote],
                  show_kustomization(remote, name, fault))
        /\ UNCHANGED <<sccs, extensions, flux_extension>>

\* The cluster ends the installation of an extension that was being created.
ExtensionOperationEnds ==
    /\ UNCHANGED callers
    /\ Idle
    /\ \E i \in 1..Len(extensions), state \in {SUCCEEDED, "Failed"} :
        /\ extensions[i].provisioning_state = CREATING
        /\ extensions' = [extensions EXCEPT ![i].provisioning_state = state]
        /\ UNCHANGED <<remote, sccs, op, args, config, flux_extension, request, log, outcome,
                       error>>

\* The command's process ends: its result has been printed or its error
\* reported, and the next command starts afresh.
Exit ==
    /\ UNCHANGED callers
    /\ ~Idle
    /\ op' = "init"
    /\ args' = Null
    /\ config' = Null
    /\ flux_extension' = Null
    /\ request' = Null
    /\ log' = <<>>
    /\ outcome' = "none"
    /\ error' = {}
    /\ UNCHANGED <<remote, sccs, extensions>>

----------------------------------------------------------------------------
(* Spec: the commands on one configuration of a cluster that is ready for  *)
(* Flux (no legacy configuration, the Flux extension installed).           *)

Init ==
    /\ remote = Null
    /\ sccs = 0
    /\ extensions = <<Extension(FLUX_EXTENSION_TYPE, SUCCEEDED, "SystemAssigned")>>
    /\ Idle
    /\ callers = NoCallers

Next ==
    \/ Show
    \/ List
    \/ Create
    \/ Update
    \/ Delete
    \/ CreateKustomization
    \/ UpdateKustomization
    \/ DeleteKustomization
    \/ ListKustomization
    \/ ShowKustomization
    \/ Exit

Spec == Init /\ [][Next]_vars

----------------------------------------------------------------------------
(* SpecPrereq: create on every cluster: with and without legacy            *)
(* configurations, with any extensions in any provisioning state.          *)

\* A configuration stored before the commands run: a git configuration created with
\* no kustomization of its own.
RaceConfiguration ==
    create(Null, 0, <<Extension(FLUX_EXTENSION_TYPE, SUCCEEDED, "SystemAssigned")>>, GIT,
           GitParams, <<>>, FALSE, "connectedClusters", FALSE, "ok", SUCCEEDED).remote

ExtensionLists(n) ==
    UNION {[1..k -> {Extension(t, st, None) : t \in ExtensionTypes, st \in ProvisioningStates}] :
              k \in 0..n}

InitPrereq ==
    /\ remote \in {Null, RaceConfiguration}
    /\ sccs \in 0..MaxLegacy
    /\ extensions \in ExtensionLists(MaxExt)
    /\ Idle
    /\ callers = NoCallers

NextPrereq ==
    \/ CreateOnCluster
    \/ UpdateOnCluster
    \/ ExtensionOperationEnds
    \/ Exit

SpecPrereq == InitPrereq /\ [][NextPrereq]_vars

----------------------------------------------------------------------------
(* SpecGen: the source-kind generators on every set of parameters with at  *)
(* most MaxSupplied of them given.                                          *)

MaxSupplied == 2    \* parameters given a value on one command line

Kinds == {GIT, GIT_REPOSITORY, BUCKET}

\* The parameters a kind requires, given.
RequiredGiven(kind) ==
    IF kind \in {GIT, GIT_REPOSITORY}
    THEN [NoParams EXCEPT !["url"] = HTTPS_URL]
    ELSE [NoParams EXCEPT !["url"] = S3_URL, !["bucket_name"] = "v-bucket_name"]

\* A command line is being written: some parameters are given, no command
\* has run on them yet.
Typing == op = "supply"

\* The parameters given so far.
Supplied == IF Typing THEN args.kwargs ELSE NoParams

\* The command line starts with what a kind requires.
SupplyRequired ==
    /\ UNCHANGED callers
    /\ Idle
    /\ \E kind \in {GIT, BUCKET} :
        /\ op' = "supply"
        /\ args' = [kwargs |-> RequiredGiven(kind), given |-> 0]
    /\ UNCHANGED <<remote, sccs, extensions, config, flux_extension, request, log, outcome,
                   error>>

\* One more parameter is given a value, or a given one another value.
Supply ==
    /\ UNCHANGED callers
    /\ Idle \/ Typing
    /\ (IF Typing THEN args.given ELSE 0) < MaxSupplied
    /\ \E p \in ParamNames : \E v \in ParamValues(p) :
        /\ op' = "supply"
        /\ args' = [kwargs |-> [Supplied EXCEPT ![p] = v],
                    given |-> (IF Typing THEN args.given ELSE 0) + 1]
    /\ UNCHANGED <<remote, sccs, extensions, config, flux_extension, request, log, outcome,
                   error>>

\* The generator built for kind and generate() called on it, as create does.
Generate ==
    /\ UNCHANGED callers
    /\ Idle \/ Typing
    /\ \E kind \in Kinds, kwargs \in {Supplied} :
        LET factory == source_kind_generator_factory(kind, kwargs)
            generated == generate(factory)
            failed == IF factory.raised # None THEN factory
                      ELSE [raised |-> generated.raised, names |-> {}]
        IN  /\ op' = "generate"
            /\ args' = [kind |-> kind, kwargs |-> kwargs]
            /\ request' = IF failed.raised # None THEN Null
                          ELSE [git_repository |-> generated.git_repository,
                                bucket |-> generated.bucket]
            /\ outcome' = OutcomeOf(failed)
            /\ error' = failed.names
            /\ log' = <<>>
            /\ UNCHANGED <<remote, sccs, extensions, config, flux_extension>>

\* The generator built for kind and generate_patch() called on it, as update does.
GeneratePatch ==
    /\ UNCHANGED callers
    /\ Idle \/ Typing
    /\ \E kind \in Kinds, kwargs \in {Supplied} :
        LET factory == source_kind_generator_factory(kind, kwargs)
            generated == generate_patch(factory, any_supplied(kwargs, <<>>))
        IN  /\ op' = "generate_patch"
            /\ args' = [kind |-> kind, kwargs |-> kwargs]
            /\ request' = IF factory.raised # None THEN Null
                          ELSE [git_repository |-> generated.git_repository,
                                bucket |-> generated.bucket]
            /\ outcome' = OutcomeOf(factory)
            /\ error' = factory.names
            /\ log' = <<>>
            /\ UNCHANGED <<remote, sccs, extensions, config, flux_extension>>

InitGen ==
    /\ remote = Null
    /\ sccs = 0
    /\ extensions = <<>>
    /\ Idle
    /\ callers = NoCallers

NextGen ==
    \/ SupplyRequired
    \/ Supply
    \/ Generate
    \/ GeneratePatch
    \/ Exit

SpecGen == InitGen /\ [][NextGen]_vars

----------------------------------------------------------------------------
(* SpecRace: MaxCallers create_kustomization commands at the same time on   *)
(* one configuration.  Each is a process of its own; the cluster serves     *)
(* their requests one at a time, in any order.                              *)

\* The kustomizations the racing commands define.
RaceInputs ==
    {KwArgs("./apps", None, None, None, None, "True", None),
     KwArgs("./infra", None, "10m", "1h", "10m", "False", "True")}

RaceFaults == {"ok", "server_error"}

\* A request of caller c as the cluster sees it.
Call(c, name) == [caller |-> c, call |-> name]

Calls(c, names) == [i \in 1..Len(names) |-> Call(c, names[i])]

InitRace ==
    /\ remote = RaceConfiguration
    /\ sccs = 0
    /\ extensions = <<Extension(FLUX_EXTENSION_TYPE, SUCCEEDED, "SystemAssigned")>>
    /\ Idle
    /\ callers = NoCallers

\* Caller c runs create_kustomization up to the answer of its client.get.
FetchStep(c) ==
    /\ callers[c].pc = "start"
    /\ \E name \in Names, kwargs \in RaceInputs, fault \in RaceFaults :
        LET res == create_kustomization_fetch(remote, kwargs, fault)
        IN  /\ callers' = [callers EXCEPT ![c] =
                   [pc |-> IF res.raised = None THEN "fetched" ELSE "done",
                    kustomization_name |-> name, kwargs |-> kwargs,
                    current_config |-> res.config,
                    outcome |-> IF res.raised = None THEN "none" ELSE res.raised]]
            /\ log' = log \o Calls(c, res.log)
    /\ UNCHANGED <<remote, sccs, extensions, op, args, config, flux_extension, request, outcome,
                   error>>

\* Caller c runs the rest of create_kustomization on the configuration it read.
PatchStep(c) ==
    /\ callers[c].pc = "fetched"
    /\ LET res == create_kustomization_patch(remote, callers[c].current_config,
                                             callers[c].kustomization_name, callers[c].kwargs)
       IN  /\ remote' = res.remote
           /\ callers' = [callers EXCEPT ![c].pc = "done", ![c].outcome = OutcomeOf(res)]
           /\ log' = log \o Calls(c, res.log)
    /\ UNCHANGED <<sccs, extensions, op, args, config, flux_extension, request, outcome, error>>

NextRace == \E c \in Callers : FetchStep(c) \/ PatchStep(c)

SpecRace == InitRace /\ [][NextRace]_vars

----------------------------------------------------------------------------
(* SpecPartner: the Create handlers of the partner extensions, one command   *)
(* a behaviour.  op names the function that runs, args holds what it was     *)
(* given and what the services answer, config its locals while it waits for  *)
(* the resource provider, request what it returns, log its calls.            *)

NoVersion == <<>>

\* packaging.version: release numbers compare segment by segment, as numbers
VersionLeq(a, b) ==
    \/ a[1] < b[1]
    \/ a[1] = b[1] /\ a[2] < b[2]
    \/ a[1] = b[1] /\ a[2] = b[2] /\ a[3] <= b[3]

\* _validate_tested_distro (OpenServiceMesh.py 114-145); distro is what
\* resources.get_by_id answers
_validate_tested_distro(extension_version, distro) ==
    IF VersionLeq(extension_version, <<0, 8, 3>>)
    THEN [raised |-> None, log |-> <<"warning:testedDistros unavailable">>]
    ELSE IF distro = "raises"
    THEN [raised |-> "CloudError", log |-> <<"resources.get_by_id">>]
    ELSE [raised |-> None, log |-> <<"resources.get_by_id", "warning:" \o distro>>]

\* OpenServiceMesh.Create (OpenServiceMesh.py 35-92)
OpenServiceMesh_Create(scope, auto_upgrade_minor_version, release_train, version, distro) ==
    LET lower_train == IF release_train = "Pilot" THEN "pilot" ELSE release_train
        forced == auto_upgrade_minor_version \in {"True", None}
        tested == _validate_tested_distro(version, distro)
        warned == IF forced THEN <<"warning:auto-upgrade-minor-version">> ELSE <<>>
    IN  IF scope = "namespace"
        THEN [raised |-> "InvalidArgumentValueError", log |-> <<>>, request |-> Null]
        ELSE IF release_train = None
        THEN [raised |-> "RequiredArgumentMissingError", log |-> <<>>, request |-> Null]
        ELSE IF lower_train \notin {"staging", "pilot"}
        THEN [raised |-> "InvalidArgumentValueError", log |-> <<>>, request |-> Null]
        ELSE IF version = NoVersion
        THEN [raised |-> "RequiredArgumentMissingError", log |-> <<>>, request |-> Null]
        ELSE IF tested.raised # None
        THEN [raised |-> tested.raised, log |-> warned \o tested.log, request |-> Null]
        ELSE [raised |-> None, log |-> warned \o tested.log,
              request |-> [release_train |-> release_train, version |-> version,
                           auto_upgrade_minor_version |->
                               IF forced THEN "False" ELSE auto_upgrade_minor_version,
                           scope |-> "cluster", identity |-> None]]

OsmCreate ==
    /\ Idle
    /\ \E scope \in {None, "cluster", "namespace"},
          auto_upgrade_minor_version \in {None, "True", "False"},
          release_train \in {None, "stable", "staging", "pilot", "Pilot"},
          version \in {NoVersion, <<0, 8, 3>>, <<0, 9, 1>>, <<0, 10, 0>>},
          distro \in {"general", "aks", "raises"} :
        LET res == OpenServiceMesh_Create(scope, auto_upgrade_minor_version, release_train,
                                          version, distro)
        IN  /\ ~InLog("resources.get_by_id", res.log) => distro = "general"
            /\ op' = "OpenServiceMesh.Create"
            /\ args' = [scope |-> scope,
                        auto_upgrade_minor_version |-> auto_upgrade_minor_version,
                        release_train |-> release_train, version |-> version,
                        distro |-> distro]
            /\ request' = res.request
            /\ log' = res.log
            /\ outcome' = OutcomeOf(res)
    /\ UNCHANGED <<remote, sccs, extensions, config, flux_extension, error, callers>>

TIMEOUT_SECS == 120   \* timeout_secs of _register_resource_provider

SLEEP_SECS == 3       \* time.sleep(3) in its loop

MaxLatency == 1       \* seconds a providers.get takes at most

\* What providers.get answers as registration_state; "raises" when it fails.
ProviderAnswers == {"Registered", "REGISTERED", "Registering", None, "raises"}

\* _is_resource_provider_registered (CostExport.py 148-158)
_is_resource_provider_registered(answer) ==
    LET lowered == CASE answer = "Registered" -> "registered"
                     [] answer = "REGISTERED" -> "registered"
                     [] answer = "Registering" -> "registering"
                     [] OTHER -> answer
    IN  IF answer = "raises" THEN FALSE
        ELSE Truthy(answer) /\ lowered = "registered"

\* _register_resource_provider up to its loop (115-131): first and second are
\* the answers of providers.get before and after the register call
register_begin(first, register_ok, second) ==
    IF _is_resource_provider_registered(first)
    THEN [pc |-> "registered", registration_state |-> first, elapsed |-> 0,
          log |-> <<"providers.get">>]
    ELSE IF ~register_ok
    THEN [pc |-> "raised", registration_state |-> first, elapsed |-> 0,
          log |-> <<"providers.get", "providers.register">>]
    ELSE [pc |-> IF _is_resource_provider_registered(second) THEN "registered"
                 ELSE "polling",
          registration_state |-> second, elapsed |-> 0,
          log |-> <<"providers.get", "providers.register", "providers.get">>]

\* a loop that never gives up
register_poll_forever(locals, answer, latency) ==
    [locals EXCEPT
        !.pc = IF _is_resource_provider_registered(answer) THEN "registered" ELSE "polling",
        !.registration_state = answer]

\* One turn of the loop (132-137): the check, the sleep, the timeout.  The
\* clock is read in whole seconds since start.
register_poll(locals, answer, latency) ==
    LET now == locals.elapsed + latency + SLEEP_SECS
    IN  [locals EXCEPT
            !.pc = IF now >= TIMEOUT_SECS THEN "raised"
                   ELSE IF _is_resource_provider_registered(answer) THEN "registered"
                   ELSE "polling",
            !.registration_state = answer,
            !.elapsed = now]

\* What the caller of _register_resource_provider gets (138-145).
RegistrationOutcome(locals) ==
    IF locals.pc = "registered" THEN "returned"
    ELSE IF locals.pc = "raised" THEN "ValidationError"
    ELSE "none"

\* A direct call of _register_resource_provider.
RegisterResourceProvider ==
    /\ Idle
    /\ \E first \in ProviderAnswers, register_ok \in BOOLEAN, second \in ProviderAnswers :
        LET locals == register_begin(first, register_ok, second)
        IN  /\ Len(locals.log) < 3 => second = first
            /\ Len(locals.log) < 2 => register_ok
            /\ op' = "_register_resource_provider"
            /\ args' = [first |-> first, register_ok |-> register_ok]
            /\ config' = [pc |-> locals.pc, registration_state |-> locals.registration_state,
                          elapsed |-> locals.elapsed]
            /\ log' = locals.log
            /\ outcome' = RegistrationOutcome(locals)
    /\ UNCHANGED <<remote, sccs, extensions, flux_extension, request, error, callers>>

\* What a costmanagement export create invocation does: exit code 0, a
\* non-zero exit code with its error, or SystemExit out of invoke.
ExportAnswers == {"ok", "failed", "exits"}

ExportCall(export_type) == "costmanagement export create:" \o export_type

\* _create_cost_export trying Usage first
create_cost_export_usage_first(storage_directory, cluster_name, amortized, usage) ==
    IF usage = "ok"
    THEN [raised |-> None, names |-> {}, log |-> <<ExportCall("Usage")>>,
          value |-> storage_directory \o "/" \o cluster_name]
    ELSE [raised |-> "cli.result.error", names |-> {"AmortizedCost"},
          log |-> <<ExportCall("Usage"), ExportCall("AmortizedCost")>>, value |-> None]

\* _create_cost_export (166-194); amortized and usage are what the two
\* invocations do
_create_cost_export(storage_directory, cluster_name, amortized, usage) ==
    LET first == <<ExportCall("AmortizedCost")>>
        both == <<ExportCall("AmortizedCost"), ExportCall("Usage")>>
        path == storage_directory \o "/" \o cluster_name
    IN  IF amortized = "ok"
        THEN [raised |-> None, names |-> {}, log |-> first, value |-> path]
        ELSE IF amortized = "exits"
        THEN [raised |-> "SystemExit", names |-> {"AmortizedCost"}, log |-> first,
              value |-> None]
        ELSE IF usage = "ok"
        THEN [raised |-> None, names |-> {}, log |-> both, value |-> path]
        ELSE IF usage = "exits"
        THEN [raised |-> "SystemExit", names |-> {"Usage"}, log |-> both, value |-> None]
        ELSE [raised |-> "cli.result.error", names |-> {"Usage"}, log |-> both, value |-> None]

\* A direct call of _create_cost_export.
CreateCostExport ==
    /\ Idle
    /\ \E storage_directory \in {"MC_rg", "exports"}, cluster_name \in {"c1", "c2"},
          amortized \in ExportAnswers, usage \in ExportAnswers :
        LET res == _create_cost_export(storage_directory, cluster_name, amortized, usage)
        IN  /\ Len(res.log) < 2 => usage = "ok"
            /\ op' = "_create_cost_export"
            /\ args' = [storage_directory |-> storage_directory,
                        cluster_name |-> cluster_name, amortized |-> amortized,
                        usage |-> usage]
            /\ request' = IF res.raised = None THEN [value |-> res.value] ELSE Null
            /\ log' = res.log
            /\ outcome' = OutcomeOf(res)
            /\ error' = res.names
    /\ UNCHANGED <<remote, sccs, extensions, config, flux_extension, callers>>

\* The configuration settings CostExport.Create is given.
CostSettings ==
    LET both == ("storageAccountId" :> "account-a") @@ ("storageContainer" :> "exports")
    IN  {<<>>,
         ("storageAccountId" :> "account-a"),
         ("storageContainer" :> "exports"),
         both,
         both @@ ("cmStorageAccountId" :> "account-b"),
         both @@ ("cmStorageAccountId" :> "account-a") @@ ("storagePath" :> "reports")}

\* The invocations of CostExport.Create that change something.
CostMutatingCalls ==
    {"providers.register", "storage account create", "storage container create",
     "ad sp create-for-rbac", "role assignment create:storageAccountId",
     "role assignment create:cmStorageAccountId", "role assignment create:resourceGroup",
     ExportCall("AmortizedCost"), ExportCall("Usage")}

\* CostExport.Create up to the registration (36-54): the node resource group
\* is read, the two required settings are checked, the others defaulted.
create_settings(configuration_settings, aks_show) ==
    LET mc_resource_group == "MC_rg"
        given == configuration_settings
        s1 == given @@ ("storagePath" :> mc_resource_group)
        s2 == s1 @@ ("cmStorageAccountId" :> s1["storageAccountId"])
        s3 == s2 @@ ("cmStorageContainer" :> s2["storageContainer"])
        s4 == s3 @@ ("cmStoragePath" :> s3["storagePath"])
        s5 == ("clusterResourceGroup" :> mc_resource_group) @@ ("subscriptionId" :> "sub")
              @@ s4
    IN  IF aks_show # "ok"
        THEN [raised |-> "Exception", names |-> {}, log |-> <<"aks show">>, settings |-> Null]
        ELSE IF "storageAccountId" \notin DOMAIN given
        THEN [raised |-> "ValidationError", names |-> {"storageAccountId"},
              log |-> <<"aks show">>, settings |-> Null]
        ELSE IF "storageContainer" \notin DOMAIN given
        THEN [raised |-> "ValidationError", names |-> {"storageContainer"},
              log |-> <<"aks show">>, settings |-> Null]
        ELSE [raised |-> None, names |-> {}, log |-> <<"aks show">>, settings |-> s5]

\* _ensure_storage_container (208-228): the invocations it makes when none
\* fails; account is what storage account show does
_ensure_storage_container(account, container_exists) ==
    IF account = "denied"
    THEN [raised |-> "SystemExit", log |-> <<"storage account show">>]
    ELSE [raised |-> None,
          log |-> <<"storage account show">>
                  \o (IF account = "missing" THEN <<"storage account create">> ELSE <<>>)
                  \o <<"storage container exists">>
                  \o (IF container_exists THEN <<>> ELSE <<"storage container create">>)]

\* a Create that assigns the role on cmStorageAccountId whatever it is
create_after_registration_assigning_twice(settings, cluster_name, account, container_exists, fails_at, amortized, usage) ==
    LET export == _create_cost_export(settings["cmStoragePath"], cluster_name, amortized, usage)
    IN  [raised |-> export.raised, names |-> export.names,
         log |-> _ensure_storage_container(account, container_exists).log
                 \o <<"ad sp create-for-rbac", "role assignment create:storageAccountId",
                      "role assignment create:cmStorageAccountId",
                      "role assignment create:resourceGroup">> \o export.log,
         request |-> IF export.raised # None THEN Null
                     ELSE [configuration_settings |->
                               [settings EXCEPT !["cmStoragePath"] = export.value],
                           create_identity |-> TRUE]]

\* CostExport.Create after the registration (58-112); fails_at names the
\* invocation that ends with a non-zero exit code, if one does
create_after_registration(settings, cluster_name, account, container_exists, fails_at, amortized, usage) ==
    LET ensured == _ensure_storage_container(account, container_exists)
        planned == ensured.log
                   \o <<"ad sp create-for-rbac", "role assignment create:storageAccountId">>
                   \o (IF settings["cmStorageAccountId"] # settings["storageAccountId"]
                       THEN <<"role assignment create:cmStorageAccountId">> ELSE <<>>)
                   \o <<"role assignment create:resourceGroup">>
        export == _create_cost_export(settings["cmStoragePath"], cluster_name, amortized, usage)
    IN  IF ensured.raised # None
        THEN [raised |-> ensured.raised, names |-> {}, log |-> ensured.log, request |-> Null]
        ELSE IF InLog(fails_at, planned)
        THEN [raised |-> "Exception", names |-> {},
              log |-> SubSeq(planned, 1, IndexOf(fails_at, planned)), request |-> Null]
        ELSE IF export.raised # None
        THEN [raised |-> export.raised, names |-> export.names,
              log |-> planned \o export.log, request |-> Null]
        ELSE [raised |-> None, names |-> {}, log |-> planned \o export.log,
              request |-> [configuration_settings |->
                               [settings EXCEPT !["cmStoragePath"] = export.value],
                           create_identity |-> TRUE]]

\* The locals of _register_resource_provider as its caller has them: none
\* once it has returned.
AfterCall(locals) ==
    IF locals.pc = "registered"
    THEN [pc |-> "registered", registration_state |-> "Registered", elapsed |-> 0]
    ELSE [pc |-> locals.pc, registration_state |-> locals.registration_state,
          elapsed |-> locals.elapsed]

\* CostExport.Create from its start to the registration's first answers.
CostExportCreate ==
    /\ Idle
    /\ \E configuration_settings \in CostSettings, aks_show \in {"ok", "failed"},
          first \in ProviderAnswers, register_ok \in BOOLEAN, second \in ProviderAnswers :
        LET checked == create_settings(configuration_settings, aks_show)
            locals == register_begin(first, register_ok, second)
            started == checked.raised = None
        IN  /\ (~started \/ Len(locals.log) < 3) => second = first
            /\ (~started \/ Len(locals.log) < 2) => register_ok
            /\ ~started => first = "Registered"
            /\ op' = "CostExport.Create"
            /\ args' = [configuration_settings |-> configuration_settings,
                        aks_show |-> aks_show, first |-> first, register_ok |-> register_ok]
            /\ config' = IF started THEN AfterCall(locals) ELSE Null
            /\ log' = IF started THEN checked.log \o locals.log ELSE checked.log
            /\ outcome' = IF ~started THEN checked.raised
                          ELSE IF locals.pc = "raised" THEN "ValidationError"
                          ELSE "none"
            /\ error' = checked.names
    /\ UNCHANGED <<remote, sccs, extensions, flux_extension, request, callers>>

\* One turn of the loop of _register_resource_provider, called directly or by
\* CostExport.Create.
Poll ==
    /\ op \in {"_register_resource_provider", "CostExport.Create"}
    /\ outcome = "none"
    /\ config.pc = "polling"
    /\ \E answer \in ProviderAnswers, latency \in 0..MaxLatency :
        LET locals == register_poll(config, answer, latency)
        IN  /\ config' = IF op = "CostExport.Create" THEN AfterCall(locals) ELSE locals
            /\ outcome' = IF op = "_register_resource_provider"
                          THEN RegistrationOutcome(locals)
                          ELSE IF locals.pc = "raised" THEN "ValidationError"
                          ELSE "none"
    /\ UNCHANGED <<remote, sccs, extensions, op, args, flux_extension, request, log, error,
                   callers>>

\* CostExport.Create from the return of _register_resource_provider on.
CostExportCreateContinues ==
    /\ op = "CostExport.Create"
    /\ outcome = "none"
    /\ config.pc = "registered"
    /\ \E account \in {"exists", "missing", "denied"}, container_exists \in BOOLEAN,
          fails_at \in CostMutatingCalls \cup {None, "storage container exists"},
          amortized \in ExportAnswers, usage \in ExportAnswers :
        LET settings == create_settings(args.configuration_settings, args.aks_show).settings
            res == create_after_registration(settings, "c1", account, container_exists,
                                             fails_at, amortized, usage)
            exporting == InLog(ExportCall("AmortizedCost"), res.log)
        IN  /\ ~InLog("storage container exists", res.log) => container_exists
            /\ (res.raised = "Exception") <=> (fails_at # None)
            /\ ~exporting => amortized = "ok"
            /\ ~InLog(ExportCall("Usage"), res.log) => usage = "ok"
            /\ args' = args @@ [account |-> account, container_exists |-> container_exists,
                                fails_at |-> fails_at, amortized |-> amortized,
                                usage |-> usage, settings |-> settings]
            /\ config' = Null
            /\ request' = res.request
            /\ log' = log \o res.log
            /\ outcome' = OutcomeOf(res)
            /\ error' = res.names
    /\ UNCHANGED <<remote, sccs, extensions, op, flux_extension, callers>>

InitPartner ==
    /\ remote = Null
    /\ sccs = 0
    /\ extensions = <<>>
    /\ Idle
    /\ callers = NoCallers

NextPartner ==
    \/ OsmCreate
    \/ RegisterResourceProvider
    \/ Poll
    \/ CreateCostExport
    \/ CostExportCreate
    \/ CostExportCreateContinues

SpecPartner == InitPartner /\ [][NextPartner]_vars

\* The loop runs on: the process is scheduled and time.sleep returns.
SpecPartnerFair == SpecPartner /\ WF_vars(Poll)

----------------------------------------------------------------------------
(* Properties of create's prerequisites (SpecPrereq) *)

\* Some listed extension is of the Flux type, however its type is spelled.
HasFluxExtension(exts) ==
    \E i \in 1..Len(exts) : lower(exts[i].extension_type) = FLUX_EXTENSION_TYPE

Before(first, second, calls) ==
    /\ InLog(first, calls)
    /\ InLog(second, calls)
    /\ IndexOf(first, calls) < IndexOf(second, calls)

\* C1: when the cluster has a legacy source-control configuration, create
\* never returns and issues neither the extension install call nor the
\* flux-configuration create call; once the parameters have passed validation
\* (the legacy configurations are listed) the error is DeploymentError, and the
\* cluster's extensions are left as they were.
C1_LegacyConfigurationBlocksCreate ==
    (op = "create" /\ args.sccs > 0) =>
        /\ outcome # "returned"
        /\ InLog("source_control_configuration.list", log) => outcome = "DeploymentError"
        /\ ~InLog("extension_client.list", log)
        /\ ~InLog("extension_client.begin_create", log)
        /\ ~InLog("client.begin_create_or_update", log)
        /\ request = Null
        /\ extensions = args.extensions

\* A create with valid parameters, on a cluster without the Flux extension, that a
\* legacy configuration has stopped.
C1_Witness ==
    /\ op = "create"
    /\ args.sccs > 0
    /\ ~HasFluxExtension(args.extensions)
    /\ outcome = "DeploymentError"
    /\ log = <<"source_control_configuration.list">>

\* C2: when create reaches the extension check and the cluster lists an
\* extension of the Flux type (compared case-insensitively), the first such
\* extension decides: the flux-configuration create call is issued if and only
\* if its provisioning_state is Succeeded; in Creating and in every other state
\* create raises DeploymentError; and no install call is issued either way.
C2_FoundExtensionMustHaveSucceeded ==
    (op = "create" /\ InLog("extension_client.list", log)
        /\ HasFluxExtension(args.extensions)) =>
        /\ flux_extension # Null
        /\ \E i \in 1..Len(args.extensions) :
               /\ args.extensions[i] = flux_extension
               /\ lower(flux_extension.extension_type) = FLUX_EXTENSION_TYPE
               /\ ~HasFluxExtension(SubSeq(args.extensions, 1, i - 1))
        /\ InLog("client.begin_create_or_update", log)
               <=> flux_extension.provisioning_state = "Succeeded"
        /\ flux_extension.provisioning_state = "Succeeded" => outcome = "returned"
        /\ flux_extension.provisioning_state # "Succeeded" =>
               outcome = "DeploymentError" /\ request = Null
        /\ ~InLog("extension_client.begin_create", log)
        /\ extensions = args.extensions

\* A create refused because of a failed extension whose type is spelled in mixed case.
C2_Witness ==
    /\ op = "create"
    /\ flux_extension # Null
    /\ flux_extension.extension_type = FLUX_TYPE_MIXED_CASE
    /\ flux_extension.provisioning_state = "Failed"
    /\ outcome = "DeploymentError"

C3_NoWaitReached ==
    /\ op = "create"
    /\ ~HasFluxExtension(args.extensions)
    /\ args.no_wait
    /\ InLog("extension_client.begin_create", log)
    /\ InLog("client.begin_create_or_update", log)

----------------------------------------------------------------------------
(* Properties of the commands on a configuration (Spec) *)

FetchingOps ==
    {"show", "update", "delete", "create_kustomization", "update_kustomization",
     "delete_kustomization", "list_kustomization", "show_kustomization"}

\* The status the remote get of the last command answered with.
GetStatus == client_get(args.stored, args.fault).status

\* C4: a confirmed delete whose remote get answers 404 warns and returns
\* normally, without raising and without a delete call.
C4_DeleteOfMissingConfigurationReturns ==
    (op = "delete" /\ InLog("client.get", log) /\ GetStatus = 404) =>
        /\ outcome = "returned"
        /\ InLog("warning:nothing_to_delete", log)
        /\ ~InLog("client.begin_delete", log)

\* C5: in every command that fetches the configuration, a failure of the
\* remote get with a status other than 404 reaches the caller as the
\* HttpResponseError it is, and nothing is sent after it.
C5_TransportErrorPropagates ==
    (op \in FetchingOps /\ InLog("client.get", log) /\ GetStatus \notin {200, 404}) =>
        /\ outcome = "HttpResponseError"
        /\ log[Len(log)] = "client.get"
        /\ remote = args.stored

\* C5, every command but delete.
C5_PropagatesOutsideDelete ==
    (op \in FetchingOps \ {"delete"} /\ InLog("client.get", log)
        /\ GetStatus \notin {200, 404}) =>
        /\ outcome = "HttpResponseError"
        /\ log[Len(log)] = "client.get"
        /\ remote = args.stored

\* Some kustomization of the configuration has prune set.
PrunesSome(cfg) ==
    \E k \in DOMAIN cfg.kustomizations : cfg.kustomizations[k].prune = "True"

\* The user was asked and said no.
Rejected ==
    \/ InLog("prompt", log) /\ ~args.answers[1]
    \/ InLog("prompt:prune", log) /\ ~args.answers[2]

\* C6: delete of a fetched configuration with a pruning kustomization, without
\* yes, asks a second confirmation after the first; a rejected confirmation
\* cancels the command with no delete call and the stored configuration as it
\* was; without a pruning kustomization no second confirmation is asked.
C6_DeleteConfirmsPruneTwice ==
    op = "delete" =>
        /\ (config # Null /\ PrunesSome(config) /\ ~args.yes) =>
               Before("prompt", "prompt:prune", log)
        /\ (config # Null /\ ~PrunesSome(config)) => ~InLog("prompt:prune", log)
        /\ args.yes => ~InLog("prompt", log) /\ ~InLog("prompt:prune", log)
        /\ Rejected =>
               /\ outcome = "CLIError"
               /\ ~InLog("client.begin_delete", log)
               /\ remote = args.stored

\* A delete cancelled at the second confirmation.
C6_Witness ==
    /\ op = "delete"
    /\ config # Null
    /\ InLog("prompt:prune", log)
    /\ ~args.answers[2]
    /\ remote # Null

\* C7: delete_kustomization of a name whose fetched kustomization prunes asks
\* for a confirmation of the pruning unless yes was given; the patch is sent
\* only with yes or that confirmation, and a rejection cancels the command with
\* no patch and the stored mapping as it was.
C7_DeleteKustomizationConfirmsPrune ==
    (op = "delete_kustomization" /\ config # Null
        /\ args.kustomization_name \in DOMAIN config.kustomizations
        /\ config.kustomizations[args.kustomization_name].prune = "True") =>
        /\ ~args.yes => InLog("prompt:prune", log)
        /\ InLog("client.begin_update", log) => args.yes \/ args.answers[2]
        /\ (~args.yes /\ ~args.answers[2]) =>
               /\ outcome = "CLIError"
               /\ ~InLog("client.begin_update", log)
               /\ request = Null
               /\ remote = args.stored

\* A delete_kustomization cancelled at the confirmation of the pruning.
C7_Witness ==
    /\ op = "delete_kustomization"
    /\ config # Null
    /\ InLog("prompt:prune", log)
    /\ ~args.answers[2]
    /\ args.kustomization_name \in DOMAIN remote.kustomizations

\* C8: create_kustomization of a name that is a key of the mapping show()
\* returned raises the already-exists error and sends no patch; show() returns
\* the stored mapping, and a create_kustomization that returned has left its
\* name a key of it, so a second one of the same name fails.
C8_CreateKustomizationRefusesExisting ==
    op = "create_kustomization" =>
        /\ config # Null => config = args.stored
        /\ (config # Null /\ args.kustomization_name \in DOMAIN config.kustomizations) =>
               /\ outcome = "ValidationError"
               /\ ~InLog("client.begin_update", log)
               /\ request = Null
               /\ remote = args.stored
        /\ outcome = "returned" =>
               /\ InLog("client.begin_update", log)
               /\ args.kustomization_name \in DOMAIN remote.kustomizations

\* A create_kustomization refused because the name was there.
C8_Witness ==
    /\ op = "create_kustomization"
    /\ config # Null
    /\ args.kustomization_name \in DOMAIN config.kustomizations
    /\ outcome = "ValidationError"

\* C9: update_kustomization, delete_kustomization and show_kustomization of a
\* name that is no key of the mapping show() returned raise the not-found
\* error, and no patch is sent.
C9_MissingKustomizationIsNotFound ==
    (op \in {"update_kustomization", "delete_kustomization", "show_kustomization"}
        /\ config # Null
        /\ args.kustomization_name \notin DOMAIN config.kustomizations) =>
        /\ outcome = "ValidationError"
        /\ ~InLog("client.begin_update", log)
        /\ request = Null
        /\ remote = args.stored

\* An update_kustomization of a name that was not there.
C9_Witness ==
    /\ op = "update_kustomization"
    /\ config # Null
    /\ args.kustomization_name \notin DOMAIN config.kustomizations
    /\ outcome = "ValidationError"

----------------------------------------------------------------------------
(* Properties of the source-kind generators (SpecGen) *)

\* The required parameters of kind git that kwargs leaves None or empty.
MissingGitParams(kwargs) ==
    {p \in GIT_REPO_REQUIRED_PARAMS : kwargs[p] = None \/ kwargs[p] = ""}

\* C10: for kind git, building the generator and calling generate() raises
\* RequiredArgumentMissing exactly when a required parameter is None or empty,
\* and the error names exactly those parameters.
C10_GitRequiredParamsNamed ==
    (op = "generate" /\ args.kind \in {GIT, GIT_REPOSITORY}) =>
        /\ MissingGitParams(args.kwargs) # {} =>
               /\ outcome = "RequiredArgumentMissingError"
               /\ error = MissingGitParams(args.kwargs)
        /\ MissingGitParams(args.kwargs) = {} => outcome # "RequiredArgumentMissingError"

\* A git generator refused for an empty url although another parameter was given.
C10_Witness ==
    /\ op = "generate"
    /\ args.kind = GIT
    /\ args.kwargs["url"] = ""
    /\ args.kwargs["branch"] = "v-branch"
    /\ outcome = "RequiredArgumentMissingError"
    /\ error = {"url"}

\* A parameter left off the command line: None, the empty string, a flag not set.
LeftOff(v) == v = None \/ v = "" \/ v = "False"

\* The parameters of the other kind that kwargs gives a value, and the
\* required ones it leaves off.
ForbiddenGiven(kind, kwargs) ==
    {p \in (IF kind \in {GIT, GIT_REPOSITORY} THEN GIT_REPO_INVALID_PARAMS
            ELSE BUCKET_INVALID_PARAMS) : ~LeftOff(kwargs[p])}

RequiredLeftOff(kind, kwargs) ==
    {p \in (IF kind \in {GIT, GIT_REPOSITORY} THEN GIT_REPO_REQUIRED_PARAMS
            ELSE BUCKET_REQUIRED_PARAMS) : LeftOff(kwargs[p])}

\* C11 as stated: every parameter set of a kind that gives a value to a
\* parameter of the other kind is refused with UnrecognizedArgument naming
\* exactly those parameters.
C11_ForbiddenParamsAlwaysNamed ==
    (op \in {"generate", "generate_patch"}
        /\ ForbiddenGiven(args.kind, args.kwargs) # {}) =>
        /\ outcome = "UnrecognizedArgumentError"
        /\ error = ForbiddenGiven(args.kind, args.kwargs)

\* C11, amended: a parameter set that gives every required parameter of its
\* kind and a value to a parameter of the other kind is refused with
\* UnrecognizedArgument naming exactly those parameters (a set that leaves a
\* required parameter off is refused with RequiredArgumentMissing first);
\* parameters of the other kind that are None or empty never cause the error.
C11_ForbiddenParamsNamed ==
    op \in {"generate", "generate_patch"} =>
        /\ (RequiredLeftOff(args.kind, args.kwargs) = {}
               /\ ForbiddenGiven(args.kind, args.kwargs) # {}) =>
               /\ outcome = "UnrecognizedArgumentError"
               /\ error = ForbiddenGiven(args.kind, args.kwargs)
               /\ request = Null
        /\ RequiredLeftOff(args.kind, args.kwargs) # {} =>
               outcome = "RequiredArgumentMissingError"
        /\ ForbiddenGiven(args.kind, args.kwargs) = {} =>
               outcome # "UnrecognizedArgumentError"

\* A git generator refused for the two bucket parameters it was given.
C11_Witness ==
    /\ op = "generate"
    /\ args.kind = GIT
    /\ args.kwargs["url"] = HTTPS_URL
    /\ outcome = "UnrecognizedArgumentError"
    /\ error = {"bucket_name", "access_key"}

\* A bucket generator refused for the git parameter it was given.
C11_BucketReached ==
    /\ op = "generate"
    /\ args.kind = BUCKET
    /\ outcome = "UnrecognizedArgumentError"
    /\ error = {"branch"}
    /\ args.kwargs["tag"] = ""

\* Every parameter is left off.
NothingGiven(kwargs) == \A p \in DOMAIN kwargs : LeftOff(kwargs[p])

\* C12: generate_patch() returns (null, null) exactly when every parameter is
\* null or empty; otherwise what it returns is a populated patch of the
\* selected kind only, the other kind's output null.
C12_PatchIsNullIffNothingGiven ==
    op = "generate_patch" =>
        /\ NothingGiven(args.kwargs) =>
               /\ outcome = "returned"
               /\ request = [git_repository |-> Null, bucket |-> Null]
        /\ (~NothingGiven(args.kwargs) /\ outcome = "returned") =>
               IF args.kind \in {GIT, GIT_REPOSITORY}
               THEN request.git_repository # Null /\ request.bucket = Null
               ELSE request.bucket # Null /\ request.git_repository = Null

\* C12, the part that holds: a generate_patch() that returns was given a
\* parameter, and returns a populated patch of the selected kind only.
C12_ReturnedPatchIsOfKind ==
    (op = "generate_patch" /\ outcome = "returned") =>
        /\ ~NothingGiven(args.kwargs)
        /\ IF args.kind \in {GIT, GIT_REPOSITORY}
           THEN /\ request.bucket = Null
                /\ request.git_repository # Null
                /\ request.git_repository.url = args.kwargs["url"]
           ELSE /\ request.git_repository = Null
                /\ request.bucket # Null
                /\ request.bucket.url = args.kwargs["url"]

----------------------------------------------------------------------------
(* Properties of update and create (Spec) *)

\* The parameters that describe the source.
SourceParams == ParamNames \ {"scope", "namespace", "suspend"}

\* C13: an update of an existing configuration that gives no source
\* parameter does not fail with RequiredArgumentMissing, and the patch it
\* sends has no source block: git_repository and bucket are both null.
C13_UpdateWithoutSourceOmitsSource ==
    (op = "update" /\ config # Null
        /\ \A p \in SourceParams : LeftOff(args.kwargs[p])) =>
        /\ outcome # "RequiredArgumentMissingError"
        /\ outcome = "returned" =>
               request.git_repository = Null /\ request.bucket = Null

\* The source kind the parameters of a generator's error belong to.
ErrorIsOfKind(source_kind) ==
    /\ outcome = "RequiredArgumentMissingError" =>
           error \subseteq (IF source_kind = GIT_REPOSITORY THEN GIT_REPO_REQUIRED_PARAMS
                            ELSE BUCKET_REQUIRED_PARAMS)
    /\ outcome = "UnrecognizedArgumentError" =>
           error \subseteq (IF source_kind = GIT_REPOSITORY THEN GIT_REPO_INVALID_PARAMS
                            ELSE BUCKET_INVALID_PARAMS)

\* C14: an update that names no source kind builds its patch with the
\* generator of the stored configuration's source kind: what it sends is a
\* definition of that kind, and what it refuses is refused by that kind's
\* required and forbidden parameters.
C14_UpdateDefaultsToStoredKind ==
    (op = "update" /\ config # Null /\ args.kind \in {None, NotGiven}) =>
        /\ ErrorIsOfKind(config.source_kind)
        /\ outcome = "returned" =>
               IF config.source_kind = GIT_REPOSITORY
               THEN request.git_repository # Null /\ request.bucket = Null
               ELSE request.bucket # Null /\ request.git_repository = Null

\* C15: every create request has exactly one of git_repository and bucket,
\* and its source_kind is that one's: GitRepository with git_repository
\* (for kind git, its alias GitRepository, and kind left to its default),
\* Bucket with bucket; so has what the cluster stores of it.
C15_SourceKindMatchesSource ==
    (op = "create" /\ request # Null) =>
        /\ (request.git_repository # Null) # (request.bucket # Null)
        /\ request.git_repository # Null =>
               /\ request.source_kind = "GitRepository"
               /\ args.kind \in {GIT, GIT_REPOSITORY, NotGiven}
        /\ request.bucket # Null =>
               /\ request.source_kind = "Bucket"
               /\ args.kind \notin {GIT, GIT_REPOSITORY, NotGiven}
        /\ remote.source_kind = request.source_kind
        /\ remote.git_repository = request.git_repository
        /\ remote.bucket = request.bucket

\* A create of kind GitRepository, the alias, that sent its request.
C15_Witness ==
    /\ op = "create"
    /\ args.kind = GIT_REPOSITORY
    /\ outcome = "returned"
    /\ request.source_kind = "GitRepository"
    /\ request.git_repository.url = HTTPS_URL

\* A create of kind bucket that sent its request.
C15_BucketReached ==
    /\ op = "create"
    /\ outcome = "returned"
    /\ request.source_kind = "Bucket"
    /\ request.bucket.bucket_name = "v-bucket_name"
    /\ request.git_repository = Null

\* The names of the supplied kustomizations.
SuppliedNames(kustomization) ==
    {kustomization[i].name : i \in 1..Len(kustomization)}

\* C16: a create given no kustomization sends exactly one, an empty
\* definition under the default name, and warns of it; a create given
\* kustomizations sends exactly the given names, no default entry, no warning.
C16_DefaultKustomizationWhenNoneSupplied ==
    (op = "create" /\ request # Null) =>
        /\ Len(args.kustomization) = 0 =>
               /\ DOMAIN request.kustomizations = {"default"}
               /\ request.kustomizations["default"] = EmptyKustomizationDefinition
               /\ log[1] = "warning:no_kustomizations"
        /\ Len(args.kustomization) > 0 =>
               /\ DOMAIN request.kustomizations = SuppliedNames(args.kustomization)
               /\ "default" \notin DOMAIN request.kustomizations
               /\ \A i \in 1..Len(args.kustomization) :
                      \E j \in i..Len(args.kustomization) :
                          /\ args.kustomization[j].name = args.kustomization[i].name
                          /\ request.kustomizations[args.kustomization[i].name]
                                 = args.kustomization[j].definition
               /\ ~InLog("warning:no_kustomizations", log)
        /\ remote.kustomizations = request.kustomizations

\* A create without kustomizations that sent the default one.
C16_Witness ==
    /\ op = "create"
    /\ outcome = "returned"
    /\ args.kustomization = <<>>
    /\ InLog("warning:no_kustomizations", log)
    /\ DOMAIN request.kustomizations = {DEFAULT_KUSTOMIZATION_NAME}

\* A create with two kustomizations that sent the two.
C16_SuppliedReached ==
    /\ op = "create"
    /\ outcome = "returned"
    /\ Len(args.kustomization) = 2
    /\ Cardinality(DOMAIN request.kustomizations) = 2

----------------------------------------------------------------------------
(* The order of create's steps (SpecPrereq) *)

\* The calls create makes to the cluster and its resource providers.
RemoteCalls ==
    {"source_control_configuration.list", "extension_client.list", "resources.get_by_id",
     "extension_client.begin_create", "client.begin_create_or_update"}

UserInputErrors ==
    {"RequiredArgumentMissingError", "UnrecognizedArgumentError",
     "MutuallyExclusiveArgumentError", "InvalidArgumentValueError", "ValidationError"}

\* The command line has a user-input error: a required parameter left off, a
\* parameter of the other kind, a malformed duration, a url that is no git
\* remote, more than one repository reference, a key together with a key
\* file, a malformed private key.
HasInputError(kind, kwargs) ==
    \/ RequiredLeftOff(kind, kwargs) # {}
    \/ ForbiddenGiven(kind, kwargs) # {}
    \/ kwargs["timeout"] = "bogus"
    \/ kwargs["sync_interval"] = "bogus"
    \/ kind = GIT /\ kwargs["url"] \notin {HTTPS_URL, SSH_URL}
    \/ Cardinality({f \in {"branch", "tag", "semver", "commit"} : ~LeftOff(kwargs[f])}) > 1
    \/ ~LeftOff(kwargs["ssh_private_key"]) /\ ~LeftOff(kwargs["ssh_private_key_file"])
    \/ kwargs["ssh_private_key"] = MALFORMED_KEY

\* a comes before b whenever both are in calls
InOrder(a, b, calls) ==
    (InLog(a, calls) /\ InLog(b, calls)) => IndexOf(a, calls) < IndexOf(b, calls)

\* C20: create resolves the source, the kustomizations and the protected
\* settings before the legacy-conflict check, that before the extension
\* check, and that before the create call; a command line with a user-input
\* error is refused with that error before any list call, install call or
\* create call, and leaves the cluster as it was.
C20_InputErrorsBeforeAnyCall ==
    op = "create" =>
        /\ HasInputError(args.kind, args.kwargs) =>
               /\ outcome \in UserInputErrors
               /\ \A c \in RemoteCalls : ~InLog(c, log)
               /\ request = Null
               /\ remote = args.stored
               /\ extensions = args.extensions
        /\ outcome \in UserInputErrors => \A c \in RemoteCalls : ~InLog(c, log)
        /\ InOrder("warning:no_kustomizations", "source_control_configuration.list", log)
        /\ InOrder("source_control_configuration.list", "extension_client.list", log)
        /\ InOrder("extension_client.list", "extension_client.begin_create", log)
        /\ InOrder("extension_client.list", "client.begin_create_or_update", log)
        /\ InOrder("extension_client.begin_create", "client.begin_create_or_update", log)
        /\ InLog("client.begin_create_or_update", log) =>
               /\ InLog("extension_client.list", log)
               /\ log[Len(log)] = "client.begin_create_or_update"
        /\ InLog("extension_client.list", log) =>
               InLog("source_control_configuration.list", log)

\* A create refused for its malformed private key, after the kustomizations
\* were resolved and before the legacy configurations the cluster has were listed.
C20_Witness ==
    /\ op = "create"
    /\ args.kwargs["ssh_private_key"] = MALFORMED_KEY
    /\ args.sccs > 0
    /\ outcome = "InvalidArgumentValueError"
    /\ log = <<"warning:no_kustomizations">>

----------------------------------------------------------------------------
(* The two generation modes (SpecGen) *)

\* What generate() and generate_patch() give for the parameters of the last command.
Definition == generate(source_kind_generator_factory(args.kind, args.kwargs))

Patch ==
    generate_patch(source_kind_generator_factory(args.kind, args.kwargs),
                   any_supplied(args.kwargs, <<>>))

\* C17: for every parameter set generate() accepts, generate_patch() on the
\* same parameters gives a patch of the same kind whose fields equal the
\* fields of the definition generate() gives, for git and for bucket.
C17_PatchEqualsDefinition ==
    /\ (op = "generate" /\ outcome = "returned") =>
           /\ Patch.raised = None
           /\ Patch.git_repository = request.git_repository
           /\ Patch.bucket = request.bucket
    /\ (op = "generate_patch" /\ outcome = "returned" /\ Definition.raised = None) =>
           /\ request.git_repository = Definition.git_repository
           /\ request.bucket = Definition.bucket

\* A git patch with a branch, equal to the definition of the same parameters.
C17_Witness ==
    /\ op = "generate_patch"
    /\ outcome = "returned"
    /\ args.kind = GIT
    /\ request.git_repository.repository_ref # Null
    /\ request.git_repository.repository_ref.branch = "v-branch"
    /\ request.git_repository.timeout_in_seconds = <<600>>
    /\ Definition.raised = None
    /\ Definition.git_repository = request.git_repository

\* A bucket patch equal to the definition of the same parameters.
C17_BucketReached ==
    /\ op = "generate_patch"
    /\ outcome = "returned"
    /\ args.kind = BUCKET
    /\ request.bucket.access_key = "v-access_key"
    /\ Definition.bucket = request.bucket

----------------------------------------------------------------------------
(* show (Spec) *)

\* C18: show surfaces every 404 answer of the remote get as
\* ResourceNotFoundError, never as the transport's HttpResponseError: with
\* the transport's own message when that marks the parent resource as
\* missing, with the configuration-not-found message when it marks the
\* configuration as missing; and show sends nothing but the get and leaves
\* the stored configuration as it was.
C18_ShowTranslatesNotFound ==
    op = "show" =>
        /\ GetStatus = 404 =>
               /\ outcome = "ResourceNotFoundError"
               /\ ~IsInstance(outcome, "HttpResponseError")
               /\ config = Null
        /\ args.fault = "cluster_missing" => error = {CLUSTER_NOT_FOUND_MESSAGE}
        /\ (args.fault = "ok" /\ args.stored = Null) =>
               error = {FLUX_CONFIGURATION_NOT_FOUND_MESSAGE}
        /\ GetStatus = 200 => outcome = "returned" /\ config = args.stored
        /\ log = <<"client.get">>
        /\ request = Null
        /\ remote = args.stored

\* A show of a configuration on a cluster that is not there.
C18_Witness ==
    /\ op = "show"
    /\ args.fault = "cluster_missing"
    /\ args.stored # Null
    /\ outcome = "ResourceNotFoundError"
    /\ error = {CLUSTER_NOT_FOUND_MESSAGE}

\* A show of a configuration that is not there.
C18_ConfigurationMissingReached ==
    /\ op = "show"
    /\ args.fault = "ok"
    /\ args.stored = Null
    /\ outcome = "ResourceNotFoundError"
    /\ error = {FLUX_CONFIGURATION_NOT_FOUND_MESSAGE}

----------------------------------------------------------------------------
(* Properties of create_kustomization commands running at the same time    *)
(* (SpecRace)                                                               *)

\* A create_kustomization command running alone does what its two steps do
\* one after the other (an invariant of Spec).
StepsMakeTheCommand ==
    op = "create_kustomization" =>
        LET whole == create_kustomization(args.stored, args.kustomization_name, args.kwargs,
                                          args.fault)
            fetched == create_kustomization_fetch(args.stored, args.kwargs, args.fault)
            patched == create_kustomization_patch(args.stored, fetched.config,
                                                  args.kustomization_name, args.kwargs)
        IN  whole = (IF fetched.raised # None THEN fetched
                     ELSE [patched EXCEPT !.log = fetched.log \o patched.log])

\* The positions in the log of the patches the cluster has applied.
Updates == {i \in 1..Len(log) : log[i].call = "client.begin_update"}

\* The caller whose patch the cluster applied last.
LastWriter == log[CHOOSE i \in Updates : \A j \in Updates : j <= i].caller

\* C19: nothing ties the patch of create_kustomization to the configuration
\* show() returned.  A command that has read the configuration fails on the
\* existing name exactly when the name was in what it read, whatever the
\* cluster holds by the time it patches; otherwise it sends its patch and
\* returns.  The kustomization stored under the name of the last patch is the
\* one that patch carried, whole.
C19_NoCompareAndSwap ==
    /\ \A c \in Callers :
           (callers[c].pc = "done" /\ callers[c].current_config # Null) =>
               /\ callers[c].outcome =
                      (IF callers[c].kustomization_name
                              \in DOMAIN callers[c].current_config.kustomizations
                       THEN "ValidationError" ELSE "returned")
               /\ callers[c].outcome = "returned" <=>
                      \E i \in Updates : log[i].caller = c
    /\ Updates # {} =>
           /\ callers[LastWriter].kustomization_name \in DOMAIN remote.kustomizations
           /\ remote.kustomizations[callers[LastWriter].kustomization_name] =
                  kustomization_of(callers[LastWriter].kwargs)

\* Two commands created the same name with different definitions: both read
\* the configuration before either patched it, both returned, and the cluster
\* holds the definition of the later patch only.
C19_Witness ==
    /\ callers[1].pc = "done" /\ callers[2].pc = "done"
    /\ callers[1].outcome = "returned" /\ callers[2].outcome = "returned"
    /\ callers[1].kustomization_name = callers[2].kustomization_name
    /\ kustomization_of(callers[1].kwargs) # kustomization_of(callers[2].kwargs)
    /\ Len(log) = 4
    /\ log[1].call = "client.get" /\ log[2].call = "client.get"
    /\ log[3].call = "client.begin_update" /\ log[4].call = "client.begin_update"
    /\ log[3].caller # log[4].caller
    /\ remote.kustomizations[callers[1].kustomization_name] =
           kustomization_of(callers[log[4].caller].kwargs)
    /\ remote.kustomizations[callers[1].kustomization_name] #
           kustomization_of(callers[log[3].caller].kwargs)

\* A command found the name in what it read and failed without patching.
C19_ExistingNameReached ==
    \E c \in Callers :
        /\ callers[c].pc = "done"
        /\ callers[c].outcome = "ValidationError"
        /\ \A i \in Updates : log[i].caller # c

----------------------------------------------------------------------------
(* Properties of update on any cluster (SpecPrereq) *)

\* The calls of the prerequisite validator.
PrerequisiteCalls ==
    {"source_control_configuration.list", "extension_client.list", "resources.get_by_id",
     "extension_client.begin_create"}

\* C21: update never runs the prerequisite validator: it lists neither the
\* legacy source-control configurations nor the extensions and installs
\* nothing, whatever the cluster holds.  Its first call is the get of the
\* configuration, and when that get answers not-found it raises
\* ResourceNotFoundError without sending a patch.
C21_UpdateSkipsPrerequisites ==
    op = "update" =>
        /\ \A i \in 1..Len(log) : log[i] \notin PrerequisiteCalls
        /\ flux_extension = Null
        /\ Len(log) > 0 /\ log[1] = "client.get"
        /\ GetStatus = 404 =>
               /\ outcome = "ResourceNotFoundError"
               /\ log = <<"client.get">>
               /\ request = Null
               /\ remote = args.stored
        /\ outcome = "returned" =>
               log = <<"client.get", "client.begin_update">> /\ request # Null

\* update patched a configuration on a cluster that has a legacy configuration
\* and no Flux extension.
C21_Witness ==
    /\ op = "update"
    /\ sccs > 0
    /\ ~HasFluxExtension(extensions)
    /\ outcome = "returned"
    /\ request # Null
    /\ log = <<"client.get", "client.begin_update">>

\* update of a configuration that is not there.
C21_NotFoundReached ==
    /\ op = "update"
    /\ args.stored = Null
    /\ outcome = "ResourceNotFoundError"
    /\ request = Null

----------------------------------------------------------------------------
(* Properties of the extension create installs (SpecPrereq) *)

\* create sent the install call.
Installing == op = "create" /\ InLog("extension_client.begin_create", log)

\* The extension resource of the install call, as the cluster lists it after.
InstalledExtension == extensions[Len(extensions)]

\* C22 as stated: the extension create installs carries a system-assigned
\* identity on every cluster that is not a dogfood environment, whatever the
\* cluster type, and no identity on a dogfood environment.
C22_InstalledExtensionHasIdentity ==
    Installing =>
        InstalledExtension.identity = (IF args.dogfood THEN None ELSE "SystemAssigned")

\* What the code does: the identity is attached outside dogfood environments
\* unless the cluster's resource provider is the managed one.
C22_IdentityOutsideManagedClusters ==
    Installing =>
        InstalledExtension.identity =
            (IF args.dogfood \/ get_cluster_rp(args.cluster_type) = MANAGED_RP_NAMESPACE
             THEN None ELSE "SystemAssigned")

\* An install on a managed cluster that is not a dogfood environment.
C22_ManagedClusterReached ==
    /\ Installing
    /\ args.cluster_type = "managedClusters"
    /\ ~args.dogfood
    /\ InstalledExtension.identity = None

----------------------------------------------------------------------------
(* The repository reference of a git source (SpecGen) *)

\* The fields of a repository reference that are set.
RefsSet(ref) == {f \in {"branch", "tag", "semver", "commit"} : Truthy(ref[f])}

\* The generator returned a git definition with a repository reference.
EmittedRef ==
    /\ outcome = "returned"
    /\ request # Null
    /\ request.git_repository # Null
    /\ request.git_repository.repository_ref # Null

\* C23 as stated: for kind git neither generate() nor generate_patch() returns
\* a definition whose repository_ref has more than one of branch, tag, semver
\* and commit set; such parameters are refused with MutuallyExclusiveArgument.
C23_AtMostOneRepositoryRef ==
    /\ (op \in {"generate", "generate_patch"} /\ EmittedRef) =>
           Cardinality(RefsSet(request.git_repository.repository_ref)) <= 1
    /\ (op \in {"generate", "generate_patch"} /\ args.kind \in {GIT, GIT_REPOSITORY}
           /\ Cardinality(RefsSet(args.kwargs)) > 1) => outcome # "returned"

\* What the code does: the create path alone checks the reference.
C23_GenerateRefusesManyRefs ==
    /\ (op = "generate" /\ EmittedRef) =>
           Cardinality(RefsSet(request.git_repository.repository_ref)) <= 1
    /\ (op = "generate" /\ args.kind \in {GIT, GIT_REPOSITORY}
           /\ args.kwargs["url"] = HTTPS_URL
           /\ Cardinality(RefsSet(args.kwargs)) > 1) =>
           outcome = "MutuallyExclusiveArgumentError"
    /\ (op = "generate_patch" /\ EmittedRef) =>
           RefsSet(request.git_repository.repository_ref) = RefsSet(args.kwargs)

\* generate_patch() returned a reference with a branch and a tag.
C23_PatchWithTwoRefsReached ==
    /\ op = "generate_patch"
    /\ EmittedRef
    /\ RefsSet(request.git_repository.repository_ref) = {"branch", "tag"}

\* generate() refused a branch and a tag.
C23_GenerateRefusedReached ==
    /\ op = "generate"
    /\ RefsSet(args.kwargs) = {"branch", "tag"}
    /\ outcome = "MutuallyExclusiveArgumentError"

----------------------------------------------------------------------------
(* The patches of the kustomization commands (Spec) *)

\* The kustomization the last command sent under the name it was given.
Sent == request.kustomizations[args.kustomization_name]

\* C25: update_kustomization replaces the whole entry of the named key: in
\* the patch it sends, every field the caller left off (path, depends_on, the
\* three intervals, prune, force) is null whatever the stored kustomization
\* holds in it, and the entry stored afterwards is the one sent.
C25_UpdateKustomizationReplacesEntry ==
    (op = "update_kustomization" /\ outcome = "returned") =>
        /\ DOMAIN request.kustomizations = {args.kustomization_name}
        /\ args.kwargs.path = None => Sent.path = None
        /\ args.kwargs.dependencies = None => Sent.depends_on = <<>>
        /\ args.kwargs.timeout = None => Sent.timeout_in_seconds = NoSeconds
        /\ args.kwargs.sync_interval = None => Sent.sync_interval_in_seconds = NoSeconds
        /\ args.kwargs.retry_interval = None => Sent.retry_interval_in_seconds = NoSeconds
        /\ args.kwargs.prune = None => Sent.prune = None
        /\ args.kwargs.force = None => Sent.force = None
        /\ Sent = kustomization_of(args.kwargs)
        /\ remote.kustomizations[args.kustomization_name] = Sent

\* An update with nothing given of a kustomization stored with a path and
\* prune: the entry sent and stored has neither.
C25_Witness ==
    /\ op = "update_kustomization"
    /\ outcome = "returned"
    /\ args.kwargs = KwArgs(None, None, None, None, None, None, None)
    /\ args.stored.kustomizations[args.kustomization_name].path = "./apps"
    /\ args.stored.kustomizations[args.kustomization_name].prune = "True"
    /\ remote.kustomizations[args.kustomization_name].path = None
    /\ remote.kustomizations[args.kustomization_name].prune = None

\* One of the three kustomization commands sent its patch.
KustomizationPatched ==
    /\ op \in {"create_kustomization", "update_kustomization", "delete_kustomization"}
    /\ outcome = "returned"

\* C26: the patch of create_kustomization, update_kustomization and
\* delete_kustomization has a kustomizations map with the named key alone
\* (null for delete) and no other field set; once applied, every other
\* kustomization, the source and suspend are as before, the named key is gone
\* after a delete and holds the sent entry otherwise.
C26_PatchTouchesNamedKeyOnly ==
    KustomizationPatched =>
        /\ DOMAIN request.kustomizations = {args.kustomization_name}
        /\ (op = "delete_kustomization") <=> (Sent = Null)
        /\ request.suspend = None
        /\ request.git_repository = Null
        /\ request.bucket = Null
        /\ request.configuration_protected_settings = Null
        /\ DOMAIN remote.kustomizations \ {args.kustomization_name} =
               DOMAIN args.stored.kustomizations \ {args.kustomization_name}
        /\ \A k \in DOMAIN remote.kustomizations \ {args.kustomization_name} :
               remote.kustomizations[k] = args.stored.kustomizations[k]
        /\ remote.source_kind = args.stored.source_kind
        /\ remote.git_repository = args.stored.git_repository
        /\ remote.bucket = args.stored.bucket
        /\ remote.suspend = args.stored.suspend
        /\ (op = "delete_kustomization") <=>
               (args.kustomization_name \notin DOMAIN remote.kustomizations)
        /\ op # "delete_kustomization" =>
               remote.kustomizations[args.kustomization_name] = Sent

\* A delete of one of two stored kustomizations: the other one stays.
C26_Witness ==
    /\ op = "delete_kustomization"
    /\ outcome = "returned"
    /\ Cardinality(DOMAIN args.stored.kustomizations) = 2
    /\ Cardinality(DOMAIN remote.kustomizations) = 1
    /\ args.kustomization_name \notin DOMAIN remote.kustomizations

\* A create of a further kustomization on a git configuration.
C26_CreateReached ==
    /\ op = "create_kustomization"
    /\ outcome = "returned"
    /\ Cardinality(DOMAIN remote.kustomizations) > 1
    /\ args.stored.git_repository # Null
    /\ remote.git_repository = args.stored.git_repository

----------------------------------------------------------------------------
(* The protected settings of create and update (Spec) *)

\* The secrets given on the command line of the last create or update.
SshKeyGiven == Truthy(args.kwargs["ssh_private_key"]) \/ Truthy(args.kwargs["ssh_private_key_file"])

SecretsGiven ==
    (IF SshKeyGiven THEN {SSH_PRIVATE_KEY_KEY} ELSE {})
    \cup (IF Truthy(args.kwargs["https_key"]) THEN {HTTPS_KEY_KEY} ELSE {})
    \cup (IF Truthy(args.kwargs["secret_key"]) THEN {BUCKET_SECRET_KEY_KEY} ELSE {})

\* The calls of create and update that change the cluster.
MutatingCalls ==
    {"extension_client.begin_create", "client.begin_create_or_update", "client.begin_update"}

\* C27: the request of create and of update carries, in
\* configuration_protected_settings, the ssh private key iff key data was given
\* (inline or by file), the https key iff one was given and the bucket secret
\* key iff one was given, the last two base64-encoded; it carries null, not an
\* empty map, when none was given; and a request with the ssh private key is
\* sent only when the key is well formed: a malformed key ends the command
\* before any call that changes the cluster.
C27_ProtectedSettingsAssembled ==
    op \in {"create", "update"} =>
        /\ request # Null =>
               LET sent == request.configuration_protected_settings
               IN  /\ SecretsGiven = {} <=> sent = Null
                   /\ sent # Null =>
                          /\ DOMAIN sent = SecretsGiven
                          /\ HTTPS_KEY_KEY \in DOMAIN sent =>
                                 sent[HTTPS_KEY_KEY] = to_base64(args.kwargs["https_key"])
                          /\ BUCKET_SECRET_KEY_KEY \in DOMAIN sent =>
                                 sent[BUCKET_SECRET_KEY_KEY] =
                                     to_base64(args.kwargs["secret_key"])
                          /\ SSH_PRIVATE_KEY_KEY \in DOMAIN sent =>
                                 /\ sent[SSH_PRIVATE_KEY_KEY] \in
                                        {args.kwargs["ssh_private_key"],
                                         "contents-of-" \o args.kwargs["ssh_private_key_file"]}
                                 /\ validate_private_key(sent[SSH_PRIVATE_KEY_KEY]).raised = None
        /\ args.kwargs["ssh_private_key"] = MALFORMED_KEY =>
               /\ outcome # "returned"
               /\ request = Null
               /\ remote = args.stored
               /\ \A i \in 1..Len(log) : log[i] \notin MutatingCalls

\* A create with an inline ssh key: the request carries the key as given.
C27_Witness ==
    /\ op = "create"
    /\ outcome = "returned"
    /\ request.configuration_protected_settings # Null
    /\ DOMAIN request.configuration_protected_settings = {SSH_PRIVATE_KEY_KEY}
    /\ request.configuration_protected_settings[SSH_PRIVATE_KEY_KEY] = "v-ssh_private_key"

\* An update with an https key: the patch carries it base64-encoded.
C27_HttpsKeyReached ==
    /\ op = "update"
    /\ outcome = "returned"
    /\ request.configuration_protected_settings # Null
    /\ DOMAIN request.configuration_protected_settings = {HTTPS_KEY_KEY}
    /\ request.configuration_protected_settings[HTTPS_KEY_KEY] = "base64(v-https_key)"

\* A create of a bucket source with a secret key.
C27_SecretKeyReached ==
    /\ op = "create"
    /\ outcome = "returned"
    /\ request.configuration_protected_settings # Null
    /\ DOMAIN request.configuration_protected_settings = {BUCKET_SECRET_KEY_KEY}

\* An update with the key in a file.
C27_KeyFileReached ==
    /\ op = "update"
    /\ outcome = "returned"
    /\ request.configuration_protected_settings # Null
    /\ DOMAIN request.configuration_protected_settings = {SSH_PRIVATE_KEY_KEY}
    /\ request.configuration_protected_settings[SSH_PRIVATE_KEY_KEY] =
           "contents-of-v-ssh_private_key_file"

\* An update with a malformed key on a stored configuration: no patch.
C27_MalformedKeyReached ==
    /\ op = "update"
    /\ args.kwargs["ssh_private_key"] = MALFORMED_KEY
    /\ args.stored # Null
    /\ args.fault = "ok"
    /\ outcome = "InvalidArgumentValueError"
    /\ log = <<"client.get">>

\* A create and an update without secrets: the protected settings are null.
C27_NoSecretsReached ==
    /\ op \in {"create", "update"}
    /\ outcome = "returned"
    /\ SecretsGiven = {}
    /\ request.configuration_protected_settings = Null

----------------------------------------------------------------------------
(* Properties of the partner extensions (SpecPartner, SpecPartnerFair) *)

\* C24 as stated: creating a microsoft.openservicemesh extension at cluster
\* scope with release train 'stable', as the documented example does, passes
\* the validation of OpenServiceMesh.Create and returns an extension instance.
C24_DocumentedExampleAccepted ==
    (op = "OpenServiceMesh.Create" /\ args.scope = "cluster"
        /\ args.release_train = "stable") =>
        /\ outcome = "returned"
        /\ request # Null

\* What the code does: only the trains staging and pilot, in any case of
\* letters, are accepted, and only with a version.
C24_OnlyStagingAndPilotAccepted ==
    op = "OpenServiceMesh.Create" =>
        /\ outcome = "returned" =>
               /\ args.release_train \in {"staging", "pilot", "Pilot"}
               /\ args.version # NoVersion
               /\ args.scope # "namespace"
               /\ request.auto_upgrade_minor_version = "False"
        /\ (args.scope # "namespace" /\ args.release_train = "stable") =>
               outcome = "InvalidArgumentValueError"

\* The documented example, refused.
C24_StableRefusedReached ==
    /\ op = "OpenServiceMesh.Create"
    /\ args.scope = "cluster"
    /\ args.release_train = "stable"
    /\ args.version = NoVersion
    /\ args.auto_upgrade_minor_version = None
    /\ outcome = "InvalidArgumentValueError"

\* A pilot extension with a version, accepted.
C24_PilotAcceptedReached ==
    /\ op = "OpenServiceMesh.Create"
    /\ args.release_train = "Pilot"
    /\ args.version = <<0, 10, 0>>
    /\ outcome = "returned"

\* _register_resource_provider is in its loop.
Polling ==
    /\ op \in {"_register_resource_provider", "CostExport.Create"}
    /\ outcome = "none"
    /\ config.pc = "polling"

\* What a direct call of _register_resource_provider has done so far.
RegistrationSafe ==
    op = "_register_resource_provider" =>
        /\ outcome \in {"none", "returned", "ValidationError"}
        /\ outcome = "returned" =>
               /\ config.registration_state \in {"Registered", "REGISTERED"}
               /\ config.elapsed < TIMEOUT_SECS
        /\ args.first \in {"Registered", "REGISTERED"} <=> log = <<"providers.get">>
        /\ log = <<"providers.get">> => outcome = "returned"
        /\ ~args.register_ok =>
               /\ outcome = "ValidationError"
               /\ log = <<"providers.get", "providers.register">>
        /\ outcome = "none" => config.pc = "polling" /\ config.elapsed < TIMEOUT_SECS
        /\ (outcome = "ValidationError" /\ args.register_ok) =>
               config.elapsed >= TIMEOUT_SECS
        /\ config.elapsed < TIMEOUT_SECS + SLEEP_SECS + MaxLatency

C28_TimedOutReached ==
    /\ op = "_register_resource_provider"
    /\ outcome = "ValidationError"
    /\ args.register_ok
    /\ config.elapsed >= TIMEOUT_SECS

\* C29: _create_cost_export tries AmortizedCost, then Usage: Usage is tried
\* only when the AmortizedCost invocation came back with a non-zero exit code;
\* the first success returns storage_directory + "/" + cluster_name with no
\* further attempt; when both fail the error of the Usage attempt is raised.
C29_ExportTypesInOrder ==
    op = "_create_cost_export" =>
        /\ log \in {<<ExportCall("AmortizedCost")>>,
                    <<ExportCall("AmortizedCost"), ExportCall("Usage")>>}
        /\ InLog(ExportCall("Usage"), log) <=> args.amortized = "failed"
        /\ outcome = "returned" <=>
               (args.amortized = "ok" \/ (args.amortized = "failed" /\ args.usage = "ok"))
        /\ outcome = "returned" =>
               request.value = args.storage_directory \o "/" \o args.cluster_name
        /\ (args.amortized = "failed" /\ args.usage = "failed") =>
               outcome = "cli.result.error" /\ error = {"Usage"}

\* AmortizedCost failed and Usage made the export.
C29_Witness ==
    /\ op = "_create_cost_export"
    /\ args.amortized = "failed"
    /\ args.usage = "ok"
    /\ outcome = "returned"
    /\ request.value = "exports/c2"
    /\ Len(log) = 2

\* Both attempts failed.
C29_BothFailedReached ==
    /\ op = "_create_cost_export"
    /\ args.amortized = "failed"
    /\ args.usage = "failed"
    /\ error = {"Usage"}

\* The configuration settings lack a required one.
LacksRequired ==
    \/ "storageAccountId" \notin DOMAIN args.configuration_settings
    \/ "storageContainer" \notin DOMAIN args.configuration_settings

\* The cost-management storage account is another one than the storage account.
OtherCmAccount ==
    /\ "cmStorageAccountId" \in DOMAIN args.configuration_settings
    /\ args.configuration_settings["cmStorageAccountId"] #
           args.configuration_settings["storageAccountId"]

\* The step of CostExport.Create a call belongs to.
Stage(call) ==
    CASE call = "aks show" -> 0
      [] call \in {"providers.get", "providers.register"} -> 1
      [] call \in {"storage account show", "storage account create",
                   "storage container exists", "storage container create"} -> 2
      [] call = "ad sp create-for-rbac" -> 3
      [] call = "role assignment create:storageAccountId" -> 4
      [] call = "role assignment create:cmStorageAccountId" -> 5
      [] call = "role assignment create:resourceGroup" -> 6
      [] OTHER -> 7

\* The steps of a CostExport.Create with both required settings.
StepsInOrder ==
    /\ \A i, j \in 1..Len(log) : i < j => Stage(log[i]) <= Stage(log[j])
    /\ outcome = "returned" =>
           {0, 1, 2, 3, 4, 6, 7} \subseteq {Stage(log[i]) : i \in 1..Len(log)}
    /\ InLog("role assignment create:resourceGroup", log) =>
           (InLog("role assignment create:cmStorageAccountId", log) <=> OtherCmAccount)
    /\ InLog("role assignment create:cmStorageAccountId", log) => OtherCmAccount

\* C30 as stated: a CostExport.Create whose settings lack storageAccountId or
\* storageContainer raises ValidationError before any mutating step; otherwise
\* its steps run in the order registration, storage container, service
\* principal, role assignments, cost export, with a second storage role
\* assignment iff cmStorageAccountId differs from storageAccountId.
C30_MissingSettingIsValidationError ==
    op = "CostExport.Create" =>
        /\ LacksRequired =>
               /\ outcome = "ValidationError"
               /\ \A i \in 1..Len(log) : log[i] \notin CostMutatingCalls
        /\ ~LacksRequired => StepsInOrder

\* C30, amended: when the cluster's node resource group could be read, a
\* CostExport.Create whose settings lack storageAccountId or storageContainer
\* raises ValidationError naming the setting; it raises before any mutating
\* step in either case (when the node resource group cannot be read, Create
\* fails on that first, whatever the settings).  Otherwise the steps run in
\* the order registration, storage container, service principal, role
\* assignments, cost export, with a second storage role assignment iff
\* cmStorageAccountId differs from storageAccountId.
C30_MissingSettingRefusedFirst ==
    op = "CostExport.Create" =>
        /\ LacksRequired =>
               /\ outcome = (IF args.aks_show = "ok" THEN "ValidationError" ELSE "Exception")
               /\ args.aks_show = "ok" =>
                      error = (IF "storageAccountId" \notin DOMAIN args.configuration_settings
                               THEN {"storageAccountId"} ELSE {"storageContainer"})
               /\ log = <<"aks show">>
        /\ args.aks_show # "ok" => outcome = "Exception" /\ log = <<"aks show">>
        /\ (~LacksRequired /\ args.aks_show = "ok") => StepsInOrder

\* A Create with another cost-management account that went through: two
\* storage role assignments, every step in its place.
C30_Witness ==
    /\ op = "CostExport.Create"
    /\ outcome = "returned"
    /\ OtherCmAccount
    /\ InLog("role assignment create:cmStorageAccountId", log)
    /\ InLog("providers.register", log)
    /\ InLog("storage container create", log)

\* A Create without storageContainer, refused.
C30_MissingContainerReached ==
    /\ op = "CostExport.Create"
    /\ DOMAIN args.configuration_settings = {"storageAccountId"}
    /\ outcome = "ValidationError"
    /\ error = {"storageContainer"}

\* A Create without settings on a cluster that cannot be read.
C30_UnreadableClusterReached ==
    /\ op = "CostExport.Create"
    /\ args.configuration_settings = <<>>
    /\ args.aks_show = "failed"
    /\ outcome = "Exception"

\* A Create with the same account for both that went through: one storage
\* role assignment.
C30_SameAccountReached ==
    /\ op = "CostExport.Create"
    /\ outcome = "returned"
    /\ ~OtherCmAccount
    /\ "cmStorageAccountId" \in DOMAIN args.configuration_settings
    /\ ~InLog("role assignment create:cmStorageAccountId", log)

====
